---- MODULE Spec2Model ----
(***************************************************************************)
(* A state-machine model of geom-core's mesh analysis engine: the binary   *)
(* STL loader with vertex deduplication and the volume, watertightness and *)
(* bounding-box queries (Mesh.cpp), the AABB tree and its ray cast         *)
(* (Spatial.cpp) and the Analyzer facade that owns one Mesh and,           *)
(* optionally, one AABBTree, with its printability report and its          *)
(* orientation search (Analyzer.cpp); Matrix3::rotation (Vector3.hpp); and *)
(* the ShapeRegistry singleton of the CAD layer with the threads that call *)
(* it (cad/ShapeRegistry.cpp).                                             *)
(*                                                                         *)
(* Numbers.  A double is modelled by the exact value it stands for.  A     *)
(* coordinate is an integer k that stands for the real k * 10^(-coordExp); *)
(* quotients are kept as a numerator over a positive denominator, and      *)
(* DBL_MAX is the quotient 1/0, which compares above every other one.      *)
(* Rounding of the double operations is not modelled, and the 32-bit       *)
(* floats of an STL record widen to double unchanged.  The u32 triangle    *)
(* count is a pair of 16-bit limbs <<hi, lo>>, so that 50 * N wraps at     *)
(* 2^32 exactly as the unsigned multiplication of the code does.           *)
(***************************************************************************)
EXTENDS Integers, Sequences, FiniteSets, TLC

VARIABLES
    vertices,        \* Mesh::vertices, a sequence of <<x, y, z>>
    faces,           \* Mesh::faces, a sequence of <<v0, v1, v2>> (0-based indices)
    spatialTree,     \* Analyzer::spatialTree: NoTree or the root Node
    coordExp,        \* the coordinate k of a file stands for k * 10^(-coordExp)
    lastOp,          \* the name of the last call
    lastOk,          \* its boolean result (TRUE for calls that return nothing)
    lastBuf,         \* the buffer the last load decoded (NoBuf if none)
    preVertices,     \* Mesh::vertices before the last call
    preFaces,        \* Mesh::faces before the last call
    builtSinceLoad,  \* buildSpatialIndex was called after the last successful load
    report,          \* the last PrintabilityReport (NoReport if none)
    rayQuery,        \* the last ray given to AABBTree::rayCast (NoQuery if none)
    rayHit,          \* the RayHit it returned
    queryResult,     \* the last mesh query and the value it returned (NoResult if none)
    registry,        \* the members of the ShapeRegistry singleton
    threads,         \* where each thread stands inside a ShapeRegistry method
    steadyClock,     \* the last reading of std::chrono::steady_clock
    registryCall     \* the last ShapeRegistry call that returned (NoCall if none)

registryVars == <<registry, threads, steadyClock, registryCall>>

vars == <<vertices, faces, spatialTree, coordExp, lastOp, lastOk, lastBuf,
          preVertices, preFaces, builtSinceLoad, report, rayQuery, rayHit,
          queryResult, registry, threads, steadyClock, registryCall>>

NoTree == [kind |-> "none"]
NoBuf == [size |-> 0, count |-> <<0, 0>>, recs |-> <<>>]
NoReport == [kind |-> "none"]
NoQuery == [kind |-> "none"]
NoHit == [kind |-> "none"]
NoResult == [op |-> "none"]
NoCall == [op |-> "none"]

\* The threads that call the registry.
ThreadIds == {1, 2}

\* A thread outside every ShapeRegistry method.
Idle == [op |-> "none", at |-> "idle", args |-> <<>>, id |-> <<>>]

\* A map without entries.
EmptyMap == [k \in {} |-> 0]

\* The registry after construction: the mutex free (0), no shapes, no cached
\* results, nextId_ = 1, the counters at 0 and no callbacks.
NewRegistry ==
    [mutex_ |-> 0, shapes_ |-> EmptyMap, operationCache_ |-> EmptyMap, nextId_ |-> 1,
     cacheHits_ |-> 0, cacheMisses_ |-> 0,
     createdCallbacks_ |-> <<>>, disposedCallbacks_ |-> <<>>]

\* The registry part of the initial state.
InitRegistry ==
    /\ registry = NewRegistry
    /\ threads = [t \in ThreadIds |-> Idle]
    /\ steadyClock = 0
    /\ registryCall = NoCall

-----------------------------------------------------------------------------
(* Small arithmetic helpers.                                               *)

Abs(n) == IF n < 0 THEN -n ELSE n

Min(a, b) == IF a < b THEN a ELSE b

Max(a, b) == IF a > b THEN a ELSE b

RECURSIVE Pow10(_)
Pow10(n) == IF n = 0 THEN 1 ELSE 10 * Pow10(n - 1)

-----------------------------------------------------------------------------
(* Vector3 (Vector3.hpp), on exact integer coordinates.                    *)

\* An order that looks at x only.
LessByX(a, b) == a[1] < b[1]

\* Vector3::operator< : lexicographic order on the raw coordinates.
Less(a, b) ==
    IF a[1] # b[1] THEN a[1] < b[1]
    ELSE IF a[2] # b[2] THEN a[2] < b[2]
    ELSE a[3] < b[3]

\* The exponent of Vector3::operator=='s epsilon, 1e-9.
EpsExp == 9

\* |k * 10^(-coordExp)| < 10^(-EpsExp), for a coordinate difference k.
BelowEpsilon(k) ==
    IF coordExp >= EpsExp THEN Abs(k) < Pow10(coordExp - EpsExp)
    ELSE k = 0

\* Vector3::operator== : every coordinate difference is below epsilon.
EpsEqual(a, b) ==
    /\ BelowEpsilon(a[1] - b[1])
    /\ BelowEpsilon(a[2] - b[2])
    /\ BelowEpsilon(a[3] - b[3])

-----------------------------------------------------------------------------
(* Binary STL buffers.  A buffer is its length in bytes, the u32 at offset *)
(* 80 and the 50-byte records that lie wholly inside it.                   *)

HeaderBytes == 84

RecordBytes == 50

LimbBase == 65536

\* The records wholly inside a buffer of `size` bytes whose bytes from 84 on
\* are those of `src`.
MkBuf(size, count, src) ==
    [size |-> size, count |-> count,
     recs |-> IF size < HeaderBytes THEN <<>>
              ELSE SubSeq(src, 1, Min(Len(src), (size - HeaderBytes) \div RecordBytes))]

\* triangleCount * 50 in uint32_t arithmetic: the product modulo 2^32.
Mul50(count) ==
    LET lo50 == count[2] * RecordBytes
        hi50 == count[1] * RecordBytes + (lo50 \div LimbBase)
    IN <<hi50 % LimbBase, lo50 % LimbBase>>

\* 84 + (triangleCount * 50), still unsigned 32-bit before it widens to size_t.
ExpectedSize(count) ==
    LET p == Mul50(count)
        lo == p[2] + HeaderBytes
    IN <<(p[1] + (lo \div LimbBase)) % LimbBase, lo % LimbBase>>

\* size < expectedSize, for a size below 2^31.
SizeBelow(size, expected) ==
    IF expected[1] >= LimbBase \div 2 THEN TRUE
    ELSE size < expected[1] * LimbBase + expected[2]

\* i < triangleCount, for a loop index i below 2^16.
IndexBelowCount(i, count) == count[1] > 0 \/ i < count[2]

-----------------------------------------------------------------------------
(* Mesh::loadFromSTLBuffer.  The decoder state is the mesh under           *)
(* construction, the vertexMap (a set of <<vertex, index>> entries), the   *)
(* next index, the read offset and the indices[3] of the record being read. *)

\* The bytes of one vertex (three floats), of the normal a record starts
\* with and of the attribute count it ends with.
VertexBytes == 12

NormalBytes == 12

AttributeBytes == 2

\* A loader that starts from the mesh the Analyzer holds.
UnclearedMesh ==
    [vertices |-> vertices, faces |-> faces, vertexMap |-> {},
     nextVertexIndex |-> 0, indices |-> <<>>, offset |-> HeaderBytes]

\* Mesh::clear, the offset behind the count, the empty map and counter.
ClearedMesh ==
    [vertices |-> <<>>, faces |-> <<>>, vertexMap |-> {},
     nextVertexIndex |-> 0, indices |-> <<>>, offset |-> HeaderBytes]

\* A lookup that never finds a key.
MapFindNothing(vertexMap, vertex) == {}

\* std::map::find: the entries whose key is equivalent to `vertex`.
MapFind(vertexMap, vertex) ==
    {e \in vertexMap : ~Less(e[1], vertex) /\ ~Less(vertex, e[1])}

\* An insertion that hands out the index after the next one.
InsertVertexShifted(st, vertex) ==
    [st EXCEPT !.indices = Append(@, st.nextVertexIndex + 1),
               !.vertexMap = @ \cup {<<vertex, st.nextVertexIndex + 1>>},
               !.vertices = Append(@, vertex),
               !.nextVertexIndex = @ + 1]

\* The else branch of the lookup: a new vertex takes the next index.
InsertVertex(st, vertex) ==
    [st EXCEPT !.indices = Append(@, st.nextVertexIndex),
               !.vertexMap = @ \cup {<<vertex, st.nextVertexIndex>>},
               !.vertices = Append(@, vertex),
               !.nextVertexIndex = @ + 1]

\* One pass of the inner loop: reuse the index of a known vertex or insert.
ReadVertex(st, vertex) ==
    LET found == MapFind(st.vertexMap, vertex)
        s == [st EXCEPT !.offset = @ + VertexBytes]
    IN IF found # {}
       THEN [s EXCEPT !.indices = Append(@, (CHOOSE e \in found : TRUE)[2])]
       ELSE InsertVertex(s, vertex)

\* A loader that drops a face naming one vertex twice.
EmplaceUnlessDegenerate(st) ==
    IF st.indices[1] = st.indices[2] \/ st.indices[2] = st.indices[3]
       \/ st.indices[1] = st.indices[3]
    THEN st
    ELSE [st EXCEPT !.faces = Append(@, st.indices)]

\* faces.emplace_back(indices[0], indices[1], indices[2]).
EmplaceFace(st) == [st EXCEPT !.faces = Append(@, st.indices)]

\* A loader that reads the corners of a record from the last to the first.
ReadTriangleBackwards(st, rec) ==
    [EmplaceFace(ReadVertex(ReadVertex(ReadVertex(
         [st EXCEPT !.indices = <<>>, !.offset = @ + NormalBytes],
         rec[3]), rec[2]), rec[1]))
     EXCEPT !.offset = @ + AttributeBytes]

\* One pass of the outer loop on a record that lies inside the buffer.
ReadTriangle(st, rec) ==
    LET s0 == [st EXCEPT !.indices = <<>>, !.offset = @ + NormalBytes]
        s1 == ReadVertex(s0, rec[1])
        s2 == ReadVertex(s1, rec[2])
        s3 == ReadVertex(s2, rec[3])
    IN [EmplaceFace(s3) EXCEPT !.offset = @ + AttributeBytes]

\* A loader that took the end of the buffer for the end of the records.
TruncationAccepted(st) == [ok |-> TRUE, vertices |-> st.vertices, faces |-> st.faces]

\* The return inside the loop when offset + 50 > size: the load fails and
\* the triangles decoded so far stay in the mesh.
OnTruncation(st) == [ok |-> FALSE, vertices |-> st.vertices, faces |-> st.faces]

\* The loop over the records; `i` records have been read.
RECURSIVE ReadTriangles(_, _, _)
ReadTriangles(buf, i, st) ==
    IF ~IndexBelowCount(i, buf.count)
    THEN [ok |-> TRUE, vertices |-> st.vertices, faces |-> st.faces]
    ELSE IF st.offset + RecordBytes > buf.size
    THEN OnTruncation(st)
    ELSE ReadTriangles(buf, i + 1, ReadTriangle(st, buf.recs[i + 1]))

\* Mesh::loadFromSTLBuffer: clear, the two size checks, then the loop.
LoadFromSTLBuffer(buf) ==
    IF buf.size < HeaderBytes
    THEN [ok |-> FALSE, vertices |-> <<>>, faces |-> <<>>]
    ELSE IF SizeBelow(buf.size, ExpectedSize(buf.count))
    THEN [ok |-> FALSE, vertices |-> <<>>, faces |-> <<>>]
    ELSE ReadTriangles(buf, 0, ClearedMesh)

-----------------------------------------------------------------------------
(* Quotients: <<n, d>> stands for n / d, d > 0; DBL_MAX is <<1, 0>> and    *)
(* lowest() is <<-1, 0>>.                                                  *)

RECURSIVE Gcd(_, _)
Gcd(a, b) == IF b = 0 THEN a ELSE Gcd(b, a % b)

\* The quotient n / d of two integers, d # 0, in lowest terms.
Quot(n, d) ==
    LET g == Gcd(Abs(n), Abs(d))
    IN IF d < 0 THEN <<(-n) \div g, (-d) \div g>> ELSE <<n \div g, d \div g>>

DBL_MAX == <<1, 0>>

\* a < b, cross-multiplied after the common factor of the denominators is
\* taken out; DBL_MAX is below nothing and above every finite quotient.
QLess(a, b) ==
    LET g == Gcd(a[2], b[2])
    IN IF g = 0 THEN FALSE
       ELSE a[1] * (b[2] \div g) < b[1] * (a[2] \div g)

QMin(a, b) == IF QLess(b, a) THEN b ELSE a

QMax(a, b) == IF QLess(a, b) THEN b ELSE a

\* n / d < 10^(-e), for n >= 0 and 0 < d < 2^31 (so that, past e = 9, only
\* n = 0 is below).
BelowTenTo(n, d, e) ==
    IF e > 9 THEN n = 0 ELSE n <= (d - 1) \div Pow10(e)

\* n / d > 10^(-e), for d > 0.
AboveTenTo(n, d, e) == n > d \div Pow10(e)

\* The square root of n, defined where the code's std::sqrt is exact.
ISqrt(n) == CHOOSE r \in 0..n : r * r = n

-----------------------------------------------------------------------------
(* Vector arithmetic of Vector3.hpp on integer triples.                    *)

VAdd(a, b) == <<a[1] + b[1], a[2] + b[2], a[3] + b[3]>>

VSub(a, b) == <<a[1] - b[1], a[2] - b[2], a[3] - b[3]>>

VScale(a, k) == <<a[1] * k, a[2] * k, a[3] * k>>

Dot(a, b) == a[1] * b[1] + a[2] * b[2] + a[3] * b[3]

Cross(a, b) ==
    <<a[2] * b[3] - a[3] * b[2],
      a[3] * b[1] - a[1] * b[3],
      a[1] * b[2] - a[2] * b[1]>>

\* Vector3::normalized of the vector n / d (d > 0): the unit vector as
\* [n, d], or the zero vector when the length is below 1e-10.
Normalized(n, d) ==
    LET len == ISqrt(Dot(n, n))
    IN IF BelowTenTo(len, d, 10) THEN [n |-> <<0, 0, 0>>, d |-> 1]
       ELSE LET g == Gcd(Gcd(Abs(n[1]), Abs(n[2])), Gcd(Abs(n[3]), len))
            IN [n |-> <<n[1] \div g, n[2] \div g, n[3] \div g>>, d |-> len \div g]

-----------------------------------------------------------------------------
(* The queries of Mesh (Mesh.cpp): volume, watertightness, bounding box.   *)

\* The volume without the final std::abs.
SignedVolume(sum) == Quot(sum, 6)

\* The loop of Mesh::getVolume over the faces 1..k: the sum of
\* p1 . (p2 x p3).
RECURSIVE VolumeLoop(_, _, _)
VolumeLoop(k, V, F) ==
    IF k = 0 THEN 0
    ELSE VolumeLoop(k - 1, V, F)
         + Dot(V[F[k][1] + 1], Cross(V[F[k][2] + 1], V[F[k][3] + 1]))

\* std::abs(volume / 6.0), in cubes of the coordinate unit.
AbsVolume(sum) == Quot(Abs(sum), 6)

\* Mesh::getVolume.
MeshGetVolume(V, F) ==
    IF Len(F) = 0 THEN <<0, 1>> ELSE AbsVolume(VolumeLoop(Len(F), V, F))

\* The key of an edge in the edge map: the smaller index first.
EdgeKey(a, b) == IF a < b THEN <<a, b>> ELSE <<b, a>>

\* edgeCount[edge]++ on the map edgeCount.
CountEdge(edgeCount, edge) ==
    IF edge \in DOMAIN edgeCount
    THEN [edgeCount EXCEPT ![edge] = @ + 1]
    ELSE [e \in DOMAIN edgeCount \cup {edge} |->
             IF e = edge THEN 1 ELSE edgeCount[e]]

\* The three increments for one face.
CountFace(edgeCount, f) ==
    CountEdge(CountEdge(CountEdge(edgeCount, EdgeKey(f[1], f[2])),
                        EdgeKey(f[2], f[3])),
              EdgeKey(f[3], f[1]))

\* The first loop of Mesh::isWatertight over the faces 1..k.
RECURSIVE EdgeCounts(_, _)
EdgeCounts(k, F) ==
    IF k = 0 THEN [e \in {} |-> 0] ELSE CountFace(EdgeCounts(k - 1, F), F[k])

\* A variant that lets edges with more than two faces pass.
AtLeastTwo(edgeCount) == \A e \in DOMAIN edgeCount : edgeCount[e] >= 2

\* The second loop: no entry of the map differs from 2.
AllCountsTwo(edgeCount) == \A e \in DOMAIN edgeCount : edgeCount[e] = 2

\* A check that does not look at faces.empty() first.
VacuouslyWatertight(F) == AllCountsTwo(EdgeCounts(Len(F), F))

\* Mesh::isWatertight.
MeshIsWatertight(F) ==
    IF Len(F) = 0 THEN FALSE ELSE AllCountsTwo(EdgeCounts(Len(F), F))

\* The loop of Mesh::getBoundingBox over the vertices 1..k: the minimum and
\* the maximum of coordinate c (absent for k = 0, where the code holds
\* max() and lowest()).
RECURSIVE CoordMin(_, _, _)
CoordMin(k, c, V) ==
    IF k = 1 THEN V[1][c] ELSE Min(CoordMin(k - 1, c, V), V[k][c])

RECURSIVE CoordMax(_, _, _)
CoordMax(k, c, V) ==
    IF k = 1 THEN V[1][c] ELSE Max(CoordMax(k - 1, c, V), V[k][c])

\* Mesh::getBoundingBox: the extents of the box, not its corners.
MeshGetBoundingBox(V) ==
    IF Len(V) = 0 THEN <<0, 0, 0>>
    ELSE [c \in 1..3 |-> CoordMax(Len(V), c, V) - CoordMin(Len(V), c, V)]

-----------------------------------------------------------------------------
(* Ray, AABB and the two intersection tests (Spatial.hpp, Spatial.cpp).    *)
(* A ray is [o, od, d, dd]: origin o / od and direction d / dd.            *)

\* AABB::AABB() expanded by every vertex of the listed triangles.
ComputeBounds(triangleIndices, V, F) ==
    LET pts == UNION {{V[F[triangleIndices[k] + 1][j] + 1] : j \in 1..3} :
                      k \in 1..Len(triangleIndices)}
        lo(i) == CHOOSE m \in {p[i] : p \in pts} : \A p \in pts : m <= p[i]
        hi(i) == CHOOSE m \in {p[i] : p \in pts} : \A p \in pts : m >= p[i]
    IN IF pts = {} THEN [empty |-> TRUE, min |-> <<0, 0, 0>>, max |-> <<0, 0, 0>>]
       ELSE [empty |-> FALSE, min |-> <<lo(1), lo(2), lo(3)>>,
             max |-> <<hi(1), hi(2), hi(3)>>]

\* The end of one pass of the slab loop, given t1 <= t2: the interval
\* <<tMin, tMax>> narrowed, or <<>> for the return false when tMin > tMax.
SlabNarrow(iv, t1, t2) ==
    IF QLess(QMin(iv[2], t2), QMax(iv[1], t1)) THEN <<>>
    ELSE <<QMax(iv[1], t1), QMin(iv[2], t2)>>

\* if (t1 > t2) std::swap(t1, t2), then the narrowing.
SlabSwap(iv, t1, t2) ==
    IF QLess(t2, t1) THEN SlabNarrow(iv, t2, t1) ELSE SlabNarrow(iv, t1, t2)

\* One pass of the slab loop for axis i, from the interval iv; <<>> stands
\* for a return false, in this pass or an earlier one.
SlabStep(bounds, ray, i, iv) ==
    IF iv = <<>> THEN <<>>
    ELSE IF BelowTenTo(Abs(ray.d[i]), ray.dd, 8)
    THEN IF ray.o[i] < bounds.min[i] * ray.od \/ ray.o[i] > bounds.max[i] * ray.od
         THEN <<>>
         ELSE iv
    ELSE SlabSwap(iv,
             Quot((bounds.min[i] * ray.od - ray.o[i]) * ray.dd, ray.od * ray.d[i]),
             Quot((bounds.max[i] * ray.od - ray.o[i]) * ray.dd, ray.od * ray.d[i]))

\* The value AABB::intersect returns after its loop left the interval iv.
SlabResult(bounds, iv) ==
    IF bounds.empty \/ iv = <<>> THEN [hit |-> FALSE, tMin |-> <<0, 1>>, tMax |-> DBL_MAX]
    ELSE [hit |-> TRUE, tMin |-> iv[1], tMax |-> iv[2]]

\* AABB::intersect: [hit, tMin, tMax], from tMin = 0 and tMax = DBL_MAX.
AABBIntersect(bounds, ray) ==
    SlabResult(bounds,
        SlabStep(bounds, ray, 3,
            SlabStep(bounds, ray, 2,
                SlabStep(bounds, ray, 1, <<<<0, 1>>, DBL_MAX>>))))

\* The bound under which Moeller-Trumbore calls a ray parallel or behind.
MtEpsExp == 8

\* The tests of intersectRayTriangle on a = an / dd, u = un / (od an),
\* v = vn / (od an) and t = tn dd / (od an), the signs taken out of an.
MtTest(ray, an, un, vn, tn) ==
    LET sgn == IF an < 0 THEN -1 ELSE 1
        den == sgn * an * ray.od
        u == sgn * un
        v == sgn * vn
        t == sgn * tn * ray.dd
    IN IF BelowTenTo(Abs(an), ray.dd, MtEpsExp) THEN [hit |-> FALSE, t |-> DBL_MAX]
       ELSE IF u < 0 \/ u > den THEN [hit |-> FALSE, t |-> DBL_MAX]
       ELSE IF v < 0 \/ u + v > den THEN [hit |-> FALSE, t |-> DBL_MAX]
       ELSE IF AboveTenTo(t, den, MtEpsExp) THEN [hit |-> TRUE, t |-> Quot(t, den)]
       ELSE [hit |-> FALSE, t |-> DBL_MAX]

\* The dot products of intersectRayTriangle, from h = direction x edge2 and
\* Q = S x edge1, where S = od * (origin - v0).
MtDots(ray, edge1, edge2, S, h, Q) ==
    MtTest(ray, Dot(edge1, h), Dot(S, h), Dot(ray.d, Q), Dot(edge2, Q))

MtCrosses(ray, edge1, edge2, S) ==
    MtDots(ray, edge1, edge2, S, Cross(ray.d, edge2), Cross(S, edge1))

\* intersectRayTriangle: [hit, t].
IntersectRayTriangle(ray, v0, v1, v2) ==
    MtCrosses(ray, VSub(v1, v0), VSub(v2, v0), VSub(ray.o, VScale(v0, ray.od)))

-----------------------------------------------------------------------------
(* AABBTree (Spatial.cpp).  A Node is [kind, bounds, left, right,          *)
(* triangleIndices]; a null child pointer is NullNode.  The tree reads the *)
(* vertex and face arrays through the pointers taken at build time, which  *)
(* point at the vectors of the Analyzer's one Mesh object.                 *)

MAX_LEAF_TRIANGLES == 10

MAX_DEPTH == 32

NullNode == [kind |-> "null"]

\* Node::isLeaf.
IsLeaf(node) == node.left.kind = "null" /\ node.right.kind = "null"

\* A choice of axis in which the later of two equal extents wins.
SplitAxisLastWins(bounds) ==
    LET extent == VSub(bounds.max, bounds.min)
        axis1 == IF extent[2] >= extent[1] THEN 2 ELSE 1
    IN IF extent[3] >= extent[1] /\ extent[3] >= extent[2] THEN 3 ELSE axis1

\* The split axis (1 = x, 2 = y, 3 = z) of lines 163-166.
SplitAxis(bounds) ==
    LET extent == VSub(bounds.max, bounds.min)
        axis1 == IF extent[2] > extent[1] THEN 2 ELSE 1
    IN IF extent[3] > extent[1] /\ extent[3] > extent[2] THEN 3 ELSE axis1

\* Three times the centroid coordinate the comparator reads for triangle t.
CentroidKey(t, axis, V, F) ==
    V[F[t + 1][1] + 1][axis] + V[F[t + 1][2] + 1][axis] + V[F[t + 1][3] + 1][axis]

\* The orders std::sort may leave equal keys in: by ascending or by
\* descending triangle index.
TieOrders == {"asc", "desc"}

\* std::sort with the centroid comparator; `tie` orders the equal keys.
SortByCentroid(triangleIndices, axis, V, F, tie) ==
    LET S == {triangleIndices[k] : k \in 1..Len(triangleIndices)}
        key == [t \in S |-> CentroidKey(t, axis, V, F)]
        before(a, b) ==
            \/ key[a] < key[b]
            \/ key[a] = key[b] /\ (IF tie = "asc" THEN a < b ELSE a > b)
    IN [p \in 1..Len(triangleIndices) |->
           CHOOSE x \in S : Cardinality({y \in S : before(y, x)}) = p - 1]

\* A buildNode that never splits.
BuildNodeFlat(triangleIndices, depth, V, F, tie) ==
    [kind |-> "node", bounds |-> ComputeBounds(triangleIndices, V, F),
     left |-> NullNode, right |-> NullNode, triangleIndices |-> triangleIndices]

\* AABBTree::buildNode.
RECURSIVE BuildNode(_, _, _, _, _)
BuildNode(triangleIndices, depth, V, F, tie) ==
    LET bounds == ComputeBounds(triangleIndices, V, F)
    IN IF Len(triangleIndices) <= MAX_LEAF_TRIANGLES \/ depth >= MAX_DEPTH
       THEN [kind |-> "node", bounds |-> bounds, left |-> NullNode,
             right |-> NullNode, triangleIndices |-> triangleIndices]
       ELSE LET sorted == SortByCentroid(triangleIndices, SplitAxis(bounds), V, F, tie)
                mid == Len(sorted) \div 2
            IN [kind |-> "node", bounds |-> bounds,
                left |-> BuildNode(SubSeq(sorted, 1, mid), depth + 1, V, F, tie),
                right |-> BuildNode(SubSeq(sorted, mid + 1, Len(sorted)),
                                    depth + 1, V, F, tie),
                triangleIndices |-> <<>>]

\* A build whose index list stops one short, at N-2.
BuildSkippingLast(V, F, tie) ==
    [kind |-> "tree",
     root |-> BuildNode([i \in 1..Max(Len(F) - 1, 0) |-> i - 1], 0, V, F, tie)]

\* AABBTree::build: the index list 0 .. N-1, then the recursion from depth 0.
Build(V, F, tie) ==
    [kind |-> "tree", root |-> BuildNode([i \in 1..Len(F) |-> i - 1], 0, V, F, tie)]

\* A RayHit whose members are all zero.
ZeroedHit ==
    [hit |-> FALSE, distance |-> <<0, 1>>, triangleIndex |-> 0,
     point |-> <<>>, normal |-> <<>>, ub |-> FALSE]

\* RayHit::RayHit(); `ub` records a read outside the mesh arrays.
DefaultHit ==
    [hit |-> FALSE, distance |-> DBL_MAX, triangleIndex |-> -1,
     point |-> <<>>, normal |-> <<>>, ub |-> FALSE]

\* The exponent of the bound 1e-6 a hit must exceed in the leaf scan.
LeafEpsExp == 6

\* The condition of line 232 for a triangle hit at distance t.
Improves(t, bestHit, maxDistance) ==
    /\ QLess(t, bestHit.distance)
    /\ QLess(t, maxDistance)
    /\ AboveTenTo(t[1], t[2], LeafEpsExp)

\* Ray::at(t), as a triple of quotients.
RayAt(ray, t) ==
    LET td == ray.dd * t[2]
        g == Gcd(ray.od, td)
    IN <<Quot(ray.o[1] * (td \div g) + ray.d[1] * t[1] * (ray.od \div g), ray.od * (td \div g)),
         Quot(ray.o[2] * (td \div g) + ray.d[2] * t[1] * (ray.od \div g), ray.od * (td \div g)),
         Quot(ray.o[3] * (td \div g) + ray.d[3] * t[1] * (ray.od \div g), ray.od * (td \div g))>>

\* calculateTriangleNormal.
TriangleNormal(v0, v1, v2) == Normalized(Cross(VSub(v1, v0), VSub(v2, v0)), 1)

\* The if of line 232 and its body, for the triangle test result mt.
AcceptHit(triIdx, ray, maxDistance, bestHit, mt, normal) ==
    IF mt.hit /\ Improves(mt.t, bestHit, maxDistance)
    THEN [bestHit EXCEPT !.hit = TRUE, !.distance = mt.t,
                         !.triangleIndex = triIdx,
                         !.point = RayAt(ray, mt.t),
                         !.normal = normal]
    ELSE bestHit

\* The body of the leaf loop for the triangle with corners v0, v1, v2.
TestCorners(triIdx, ray, maxDistance, bestHit, v0, v1, v2) ==
    AcceptHit(triIdx, ray, maxDistance, bestHit,
              IntersectRayTriangle(ray, v0, v1, v2), TriangleNormal(v0, v1, v2))

\* The body of the leaf loop for one triangle index; an index outside the
\* face array, or a face naming a vertex outside the vertex array, is a read
\* outside the vectors.
TestTriangle(triIdx, ray, maxDistance, bestHit, V, F) ==
    IF triIdx >= Len(F) THEN [bestHit EXCEPT !.ub = TRUE]
    ELSE IF \E j \in 1..3 : F[triIdx + 1][j] >= Len(V) THEN [bestHit EXCEPT !.ub = TRUE]
    ELSE TestCorners(triIdx, ray, maxDistance, bestHit,
                     V[F[triIdx + 1][1] + 1], V[F[triIdx + 1][2] + 1],
                     V[F[triIdx + 1][3] + 1])

\* The leaf loop from position k of the leaf's index list.
RECURSIVE ScanLeaf(_, _, _, _, _, _, _)
ScanLeaf(triangleIndices, k, ray, maxDistance, bestHit, V, F) ==
    IF k > Len(triangleIndices) THEN bestHit
    ELSE ScanLeaf(triangleIndices, k + 1, ray, maxDistance,
                  TestTriangle(triangleIndices[k], ray, maxDistance, bestHit, V, F),
                  V, F)

\* AABBTree::rayCastRecursive: the best hit after visiting `node`.
RECURSIVE RayCastRecursive(_, _, _, _, _, _)
RayCastRecursive(node, ray, maxDistance, bestHit, V, F) ==
    IF node.kind = "null" THEN bestHit
    ELSE LET box == AABBIntersect(node.bounds, ray)
         IN IF ~box.hit THEN bestHit
            ELSE IF QLess(maxDistance, box.tMin) \/ QLess(bestHit.distance, box.tMin)
            THEN bestHit
            ELSE IF IsLeaf(node)
            THEN ScanLeaf(node.triangleIndices, 1, ray, maxDistance, bestHit, V, F)
            ELSE RayCastRecursive(node.right, ray, maxDistance,
                     RayCastRecursive(node.left, ray, maxDistance, bestHit, V, F),
                     V, F)

\* AABBTree::AABBTree(): a tree object on which build was never called.
UnbuiltTree == [kind |-> "unbuilt", root |-> NullNode]

\* AABBTree::rayCast on a tree object: the default hit without a root.
RayCast(tree, ray, maxDistance, V, F) ==
    IF tree.root.kind = "null" THEN DefaultHit
    ELSE RayCastRecursive(tree.root, ray, maxDistance, DefaultHit, V, F)

-----------------------------------------------------------------------------
(* Analyzer (Analyzer.cpp): the overhang scan, the wall-thickness probe    *)
(* and the printability report.  Areas are kept doubled: the area of a     *)
(* triangle is half the length of its edge cross product.                  *)

QSub(a, b) == Quot(a[1] * b[2] - b[1] * a[2], a[2] * b[2])

\* The critical angles, in degrees, the model calls the analyses with.
AngleSet == {0, 45, 90}

\* The critical angles, in degrees, the model calls autoOrient with.  With
\* these no face normal of the model's meshes lies at the critical angle from
\* a candidate direction, where the last bit of a double would decide.
OrientAngles == {60, 90}

\* The same with an obtuse critical angle, which the code accepts as any other.
QueryAngles == OrientAngles \cup {120}

\* The square of std::cos(angle * PI / 180) for the angles above.
CosSquared(angle) ==
    CASE angle = 0 -> <<1, 1>>
      [] angle = 45 -> <<1, 2>>
      [] angle = 60 -> <<1, 4>>
      [] angle = 90 -> <<0, 1>>
      [] angle = 120 -> <<1, 4>>

\* A test that looks at the size of dotProduct only, not at its sign.
BeyondCos(dn, dd, m, angle) ==
    dn * dn * CosSquared(angle)[2] > CosSquared(angle)[1] * dd * dd * m

\* dotProduct < -cosThreshold, for dotProduct = dn / (dd * sqrt(m)).  The
\* cosine is negative above 90 degrees, and the threshold then positive.
BelowMinusCos(dn, dd, m, angle) ==
    IF angle <= 90
    THEN dn < 0 /\ dn * dn * CosSquared(angle)[2] > CosSquared(angle)[1] * dd * dd * m
    ELSE dn <= 0 \/ dn * dn * CosSquared(angle)[2] < CosSquared(angle)[1] * dd * dd * m

\* Twice calculateTriangleArea.
TriangleArea2(v0, v1, v2) ==
    LET c == Cross(VSub(v1, v0), VSub(v2, v0)) IN ISqrt(Dot(c, c))

\* Whether the loop of analyzeOverhangs counts face f as an overhang.  The
\* up vector is given as an integer vector `up` that stands for the unit
\* vector up / sqrt(up . up).
IsOverhang(f, up, angle, V) ==
    LET normal == TriangleNormal(V[f[1] + 1], V[f[2] + 1], V[f[3] + 1])
    IN BelowMinusCos(Dot(normal.n, up), normal.d, Dot(up, up), angle)

\* The loop of analyzeOverhangs over the faces 1..k: twice the two sums.
RECURSIVE OverhangLoop(_, _, _, _, _)
OverhangLoop(k, up, angle, V, F) ==
    IF k = 0 THEN [overhang2 |-> 0, total2 |-> 0]
    ELSE LET rest == OverhangLoop(k - 1, up, angle, V, F)
             f == F[k]
             area2 == TriangleArea2(V[f[1] + 1], V[f[2] + 1], V[f[3] + 1])
         IN [total2 |-> rest.total2 + area2,
             overhang2 |-> IF IsOverhang(f, up, angle, V)
                           THEN rest.overhang2 + area2
                           ELSE rest.overhang2]

\* Analyzer::analyzeOverhangs: twice the overhang area and twice the total.
AnalyzeOverhangs(up, angle, V, F) ==
    IF Len(V) = 0 THEN [overhang2 |-> 0, total2 |-> 0]
    ELSE OverhangLoop(Len(F), up, angle, V, F)

\* The sum of the unit normals of the faces 1..k that use vertex i, as [n, d].
RECURSIVE VertexNormalSum(_, _, _, _)
VertexNormalSum(i, k, V, F) ==
    IF k = 0 THEN [n |-> <<0, 0, 0>>, d |-> 1, faceCount |-> 0]
    ELSE LET rest == VertexNormalSum(i, k - 1, V, F)
             f == F[k]
             fn == TriangleNormal(V[f[1] + 1], V[f[2] + 1], V[f[3] + 1])
         IN IF f[1] = i \/ f[2] = i \/ f[3] = i
            THEN [n |-> VAdd(VScale(rest.n, fn.d), VScale(fn.n, rest.d)),
                  d |-> rest.d * fn.d, faceCount |-> rest.faceCount + 1]
            ELSE rest

\* The exponent of the probe's offset epsilon, 0.001.
ProbeOffsetExp == 3

\* The ray of line 167: from vertex + normal * 0.001 along -normal.
ProbeRay(vertex, normal) ==
    [o |-> VAdd(VScale(vertex, Pow10(ProbeOffsetExp) * normal.d), normal.n),
     od |-> Pow10(ProbeOffsetExp) * normal.d,
     d |-> VScale(normal.n, -1), dd |-> normal.d]

\* What one pass of the probe loop adds: whether it cast a ray, whether it
\* counted the vertex as thin, and whether the cast read outside the arrays.
ProbeResult(sum, hit, minWall) ==
    IF sum.faceCount > 0
    THEN [cast |-> TRUE, thin |-> hit.hit /\ QLess(hit.distance, minWall),
          ub |-> hit.ub]
    ELSE [cast |-> FALSE, thin |-> FALSE, ub |-> FALSE]

\* The cast of the probe loop, from the summed face normals of the vertex.
ProbeCast(vertex, sum, minWall, tree, V, F) ==
    ProbeResult(sum,
                RayCast(tree, ProbeRay(vertex, Normalized(sum.n, sum.d)),
                        Quot(minWall[1] * 10, minWall[2]), V, F),
                minWall)

\* The probe of vertex i: [cast, thin, ub].
ProbeVertex(i, minWall, tree, V, F) ==
    ProbeCast(V[i + 1], VertexNormalSum(i, Len(F), V, F), minWall, tree, V, F)

\* The vertex count above which the probe samples every 10th vertex.
SampleThreshold == 10000

SampleRate(V) == IF Len(V) > SampleThreshold THEN 10 ELSE 1

\* The sampled vertex indices i = 0, sampleRate, 2 sampleRate, ...
SampledVertices(V) == {i \in 0..(Len(V) - 1) : i % SampleRate(V) = 0}

\* The counts after one more pass of the probe loop with result p.
AddProbe(counts, p) ==
    [probes |-> counts.probes + (IF p.cast THEN 1 ELSE 0),
     thinWallCount |-> counts.thinWallCount + (IF p.thin THEN 1 ELSE 0),
     ub |-> counts.ub \/ p.ub]

\* The probe loop over the vertex indices below i: [probes, thinWallCount, ub].
RECURSIVE ProbeLoop(_, _, _, _, _)
ProbeLoop(i, minWall, tree, V, F) ==
    IF i = 0 THEN [probes |-> 0, thinWallCount |-> 0, ub |-> FALSE]
    ELSE IF (i - 1) \in SampledVertices(V)
    THEN AddProbe(ProbeLoop(i - 1, minWall, tree, V, F),
                  ProbeVertex(i - 1, minWall, tree, V, F))
    ELSE ProbeLoop(i - 1, minWall, tree, V, F)

\* The wall-thickness loop of getPrintabilityReport.
WallThickness(minWall, tree, V, F) == ProbeLoop(Len(V), minWall, tree, V, F)

\* PrintabilityReport::PrintabilityReport(); `probed` and `ub` record whether
\* the wall-thickness branch ran and whether it read outside the arrays.
DefaultReport ==
    [kind |-> "report", overhangArea |-> <<0, 1>>, overhangPercentage |-> <<0, 1>>,
     thinWallVertexCount |-> 0, score |-> <<100, 1>>, totalSurfaceArea |-> <<0, 1>>,
     probed |-> FALSE, probes |-> 0, ub |-> FALSE]

\* A score without the two caps and the final clamp, which charges every
\* thin-wall vertex instead of their share.
UncappedScore(overhangPercentage, thinWallVertexCount, V) ==
    QSub(QSub(<<100, 1>>, Quot(overhangPercentage[1], 2 * overhangPercentage[2])),
         <<thinWallVertexCount * 50, 1>>)

\* The score of lines 188-199.
Score(overhangPercentage, thinWallVertexCount, V) ==
    LET pen1 == QMin(Quot(overhangPercentage[1], 2 * overhangPercentage[2]), <<50, 1>>)
        s1 == QSub(<<100, 1>>, pen1)
        pen2 == QMin(Quot(thinWallVertexCount * 50, Len(V)), <<50, 1>>)
        s2 == IF Len(V) > 0 THEN QSub(s1, pen2) ELSE s1
    IN QMax(<<0, 1>>, s2)

\* The overhang share as a fraction of 1.
OverhangFraction(oh) ==
    IF oh.total2 > 0 THEN Quot(oh.overhang2, oh.total2) ELSE <<0, 1>>

\* overhangPercentage: 100 * overhang / total, or 0 for a mesh without area.
OverhangPercentage(oh) ==
    IF oh.total2 > 0 THEN Quot(oh.overhang2 * 100, oh.total2) ELSE <<0, 1>>

\* The report filled in from the overhang sums and the probe counts.
ReportRecord(oh, pct, wall, probed, V) ==
    [kind |-> "report",
     overhangArea |-> Quot(oh.overhang2, 2),
     overhangPercentage |-> pct,
     thinWallVertexCount |-> wall.thinWallCount,
     score |-> Score(pct, wall.thinWallCount, V),
     totalSurfaceArea |-> Quot(oh.total2, 2),
     probed |-> probed, probes |-> wall.probes, ub |-> wall.ub]

ReportFrom(oh, wall, probed, V) ==
    ReportRecord(oh, OverhangPercentage(oh), wall, probed, V)

\* Analyzer::getPrintabilityReport, given the thin-wall count the probe
\* loop produced (`wall`, or the skipped branch when the tree is absent).
PrintabilityReportOf(angle, wall, probed, V, F) ==
    IF Len(V) = 0 THEN DefaultReport
    ELSE ReportFrom(AnalyzeOverhangs(<<0, 0, 1>>, angle, V, F), wall, probed, V)

-----------------------------------------------------------------------------
(* Analyzer::autoOrient.  A candidate is an integer vector c that stands   *)
(* for the unit vector c / sqrt(c . c).                                    *)

\* The candidates in the order the code pushes them: 6 cardinal, 12 edge and
\* 8 corner directions.
Candidates ==
    << <<1, 0, 0>>, <<-1, 0, 0>>, <<0, 1, 0>>, <<0, -1, 0>>, <<0, 0, 1>>, <<0, 0, -1>>,
       <<1, 1, 0>>, <<1, -1, 0>>, <<-1, 1, 0>>, <<-1, -1, 0>>,
       <<1, 0, 1>>, <<1, 0, -1>>, <<-1, 0, 1>>, <<-1, 0, -1>>,
       <<0, 1, 1>>, <<0, 1, -1>>, <<0, -1, 1>>, <<0, -1, -1>>,
       <<1, 1, 1>>, <<1, 1, -1>>, <<1, -1, 1>>, <<1, -1, -1>>,
       <<-1, 1, 1>>, <<-1, 1, -1>>, <<-1, -1, 1>>, <<-1, -1, -1>> >>

\* OrientationResult::OrientationResult().
DefaultOrientation ==
    [optimalUpVector |-> <<0, 0, 1>>, originalOverhangArea |-> <<0, 1>>,
     optimizedOverhangArea |-> <<0, 1>>, improvementPercent |-> <<0, 1>>]

\* A body of the search loop that keeps the larger overhang area.
KeepIfLarger(best, candidate, overhang2) ==
    IF overhang2 > best.overhang2
    THEN [overhang2 |-> overhang2, up |-> candidate]
    ELSE best

\* The body of the search loop: a candidate replaces the best one when its
\* overhang area is strictly smaller.
KeepIfSmaller(best, candidate, overhang2) ==
    IF overhang2 < best.overhang2
    THEN [overhang2 |-> overhang2, up |-> candidate]
    ELSE best

\* The search loop over the candidates 1..k, from the Z-up baseline.
RECURSIVE SearchLoop(_, _, _, _, _)
SearchLoop(k, original2, angle, V, F) ==
    IF k = 0 THEN [overhang2 |-> original2, up |-> <<0, 0, 1>>]
    ELSE KeepIfSmaller(SearchLoop(k - 1, original2, angle, V, F), Candidates[k],
                       AnalyzeOverhangs(Candidates[k], angle, V, F).overhang2)

\* improvementPercent.
ImprovementPercent(original2, optimized2) ==
    IF original2 > 0 THEN Quot((original2 - optimized2) * 100, original2)
    ELSE <<0, 1>>

\* The result filled in from the baseline and the best candidate.
OrientationFrom(original2, best) ==
    [optimalUpVector |-> best.up,
     originalOverhangArea |-> Quot(original2, 2),
     optimizedOverhangArea |-> Quot(best.overhang2, 2),
     improvementPercent |-> ImprovementPercent(original2, best.overhang2)]

\* The search from the baseline's overhang area.
SearchFrom(original2, angle, V, F) ==
    OrientationFrom(original2, SearchLoop(Len(Candidates), original2, angle, V, F))

\* Analyzer::autoOrient.  The loop runs over every candidate: sampleResolution
\* is not read anywhere in the function.
AutoOrientOf(sampleResolution, angle, V, F) ==
    IF Len(V) = 0 THEN DefaultOrientation
    ELSE SearchFrom(AnalyzeOverhangs(<<0, 0, 1>>, angle, V, F).overhang2, angle, V, F)

-----------------------------------------------------------------------------
(* The inputs the model calls the program with.                            *)

\* One up-facing triangle, the same one facing down, and a degenerate one.
RecUp == <<<<0, 0, 0>>, <<1, 0, 0>>, <<0, 1, 0>>>>

RecDown == <<<<0, 0, 0>>, <<0, 1, 0>>, <<1, 0, 0>>>>

RecDegenerate == <<<<0, 0, 0>>, <<0, 0, 0>>, <<1, 0, 0>>>>

\* The distance between the two plates of PlateRecs.
PlateGap == 1

\* The number of unit quads in each plate.
PlateQuads == 3

\* The two triangles of the bottom quad i (facing -z) and of the top one.
BottomQuad(i) ==
    << <<<<i, 0, 0>>, <<i, 1, 0>>, <<i + 1, 0, 0>>>>,
       <<<<i + 1, 0, 0>>, <<i, 1, 0>>, <<i + 1, 1, 0>>>> >>

TopQuad(i) ==
    << <<<<i, 0, PlateGap>>, <<i + 1, 0, PlateGap>>, <<i, 1, PlateGap>>>>,
       <<<<i + 1, 0, PlateGap>>, <<i + 1, 1, PlateGap>>, <<i, 1, PlateGap>>>> >>

\* Two parallel plates with normals pointing away from each other.
PlateRecs ==
    [k \in 1..(4 * PlateQuads) |->
        IF k <= 2 * PlateQuads
        THEN BottomQuad((k - 1) \div 2)[((k - 1) % 2) + 1]
        ELSE TopQuad((k - 2 * PlateQuads - 1) \div 2)[((k - 1) % 2) + 1]]

\* A triangle count N with 50 * N = 2^32 + 4.
WrapCount == <<1310, 47186>>

\* The buffers given to the loader when coordinates are whole units.
Buffers ==
    { MkBuf(50, <<0, 0>>, <<>>),
      MkBuf(HeaderBytes, <<0, 0>>, <<>>),
      MkBuf(HeaderBytes + RecordBytes, <<0, 2>>, <<RecUp, RecDown>>),
      MkBuf(HeaderBytes + RecordBytes + 6, WrapCount, <<RecUp, RecDown>>),
      MkBuf(HeaderBytes + 2 * RecordBytes + 6, <<0, 2>>, <<RecDown, RecDegenerate>>),
      MkBuf(HeaderBytes + Len(PlateRecs) * RecordBytes, <<0, Len(PlateRecs)>>, PlateRecs) }

\* The buffers that readable files hold: the one without a header and the
\* plates.
FileBuffers == {b \in Buffers : b.size < HeaderBytes \/ Len(b.recs) = Len(PlateRecs)}

\* The files given to loadSTL: one that cannot be opened, one whose read
\* fails, and readable ones holding a buffer.
FilesOf(bufs) ==
    {[canOpen |-> FALSE, canRead |-> FALSE, data |-> NoBuf],
     [canOpen |-> TRUE, canRead |-> FALSE, data |-> NoBuf]}
    \cup {[canOpen |-> TRUE, canRead |-> TRUE, data |-> b] : b \in bufs}

-----------------------------------------------------------------------------
(* The operations of the Analyzer, and AABBTree::rayCast on its tree.      *)

Init ==
    /\ vertices = <<>>
    /\ faces = <<>>
    /\ spatialTree = NoTree
    /\ coordExp = 0
    /\ lastOp = "init"
    /\ lastOk = TRUE
    /\ lastBuf = NoBuf
    /\ preVertices = <<>>
    /\ preFaces = <<>>
    /\ builtSinceLoad = FALSE
    /\ report = NoReport
    /\ rayQuery = NoQuery
    /\ rayHit = NoHit
    /\ queryResult = NoResult
    /\ InitRegistry

\* What a call leaves of the results of the calls before it.
ResetResults ==
    /\ report' = NoReport
    /\ rayQuery' = NoQuery
    /\ rayHit' = NoHit
    /\ queryResult' = NoResult

\* What a load that reached Mesh::loadFromSTLBuffer leaves, given the
\* loader's result; the tree is not touched.
StoreLoad(op, buf, res) ==
    /\ vertices' = res.vertices
    /\ faces' = res.faces
    /\ lastOp' = op
    /\ lastOk' = res.ok
    /\ lastBuf' = buf
    /\ preVertices' = vertices
    /\ preFaces' = faces
    /\ builtSinceLoad' = IF res.ok THEN FALSE ELSE builtSinceLoad
    /\ ResetResults
    /\ UNCHANGED <<spatialTree, coordExp>>
    /\ UNCHANGED registryVars

ApplyLoad(op, buf) == StoreLoad(op, buf, LoadFromSTLBuffer(buf))

\* Analyzer::loadSTLFromBytes.
LoadSTLFromBytes(data) == ApplyLoad("loadSTLFromBytes", data)

\* Analyzer::loadSTL, through Mesh::loadFromSTL: a file that cannot be opened
\* or read fails before the mesh is cleared.
LoadSTL(file) ==
    IF file.canOpen /\ file.canRead
    THEN ApplyLoad("loadSTL", file.data)
    ELSE /\ lastOp' = "loadSTL"
         /\ lastOk' = FALSE
         /\ lastBuf' = NoBuf
         /\ preVertices' = vertices
         /\ preFaces' = faces
         /\ ResetResults
         /\ UNCHANGED <<vertices, faces, spatialTree, coordExp, builtSinceLoad>>
         /\ UNCHANGED registryVars

\* Analyzer::buildSpatialIndex.
BuildSpatialIndex ==
    /\ IF Len(vertices) = 0
       THEN /\ lastOk' = FALSE
            /\ UNCHANGED spatialTree
       ELSE /\ lastOk' = TRUE
            /\ \E tie \in TieOrders : spatialTree' = Build(vertices, faces, tie)
    /\ lastOp' = "buildSpatialIndex"
    /\ lastBuf' = NoBuf
    /\ preVertices' = vertices
    /\ preFaces' = faces
    /\ builtSinceLoad' = TRUE
    /\ ResetResults
    /\ UNCHANGED <<vertices, faces, coordExp>>
    /\ UNCHANGED registryVars

\* The report a call leaves, given the counts of its probe loop.  A probe
\* that read outside the mesh arrays leaves any count of thin-wall vertices.
StoreReport(angle, wall, probed) ==
    /\ \E n \in (IF wall.ub THEN 0..Cardinality(SampledVertices(vertices))
                 ELSE {wall.thinWallCount}) :
          report' = PrintabilityReportOf(angle, [wall EXCEPT !.thinWallCount = n],
                                         probed, vertices, faces)
    /\ lastOp' = "getPrintabilityReport"
    /\ lastOk' = TRUE
    /\ lastBuf' = NoBuf
    /\ preVertices' = vertices
    /\ preFaces' = faces
    /\ rayQuery' = NoQuery
    /\ rayHit' = NoHit
    /\ queryResult' = NoResult
    /\ UNCHANGED <<vertices, faces, spatialTree, coordExp, builtSinceLoad>>
    /\ UNCHANGED registryVars

\* Analyzer::getPrintabilityReport: the probe loop runs when the Analyzer
\* holds a built tree, whatever mesh that tree was built for.
GetPrintabilityReport(angle, minWall) ==
    IF Len(vertices) > 0 /\ spatialTree.kind = "tree"
    THEN StoreReport(angle, WallThickness(minWall, spatialTree, vertices, faces), TRUE)
    ELSE StoreReport(angle, [probes |-> 0, thinWallCount |-> 0, ub |-> FALSE], FALSE)

\* What a ray cast leaves, given the hit it computed.  A cast that read
\* outside the mesh arrays returns any hit flag.
StoreHit(ray, maxDistance, res) ==
    /\ rayQuery' = [kind |-> "query", ray |-> ray, maxDistance |-> maxDistance]
    /\ IF res.ub
       THEN \E h \in BOOLEAN : rayHit' = [res EXCEPT !.hit = h]
       ELSE rayHit' = res
    /\ lastOp' = "rayCast"
    /\ lastOk' = TRUE
    /\ lastBuf' = NoBuf
    /\ preVertices' = vertices
    /\ preFaces' = faces
    /\ report' = NoReport
    /\ queryResult' = NoResult
    /\ UNCHANGED <<vertices, faces, spatialTree, coordExp, builtSinceLoad>>
    /\ UNCHANGED registryVars

\* AABBTree::rayCast on the Analyzer's tree, or on an AABBTree that was never
\* built when the Analyzer holds none.
RayCastTree(ray, maxDistance) ==
    IF spatialTree.kind = "tree"
    THEN StoreHit(ray, maxDistance, RayCast(spatialTree, ray, maxDistance, vertices, faces))
    ELSE StoreHit(ray, maxDistance, RayCast(UnbuiltTree, ray, maxDistance, vertices, faces))

\* What a query of the mesh leaves: its name, its arguments and its value.
StoreResult(op, args, value) ==
    /\ queryResult' = [op |-> op, args |-> args, value |-> value]
    /\ lastOp' = op
    /\ lastOk' = TRUE
    /\ lastBuf' = NoBuf
    /\ preVertices' = vertices
    /\ preFaces' = faces
    /\ report' = NoReport
    /\ rayQuery' = NoQuery
    /\ rayHit' = NoHit
    /\ UNCHANGED <<vertices, faces, spatialTree, coordExp, builtSinceLoad>>
    /\ UNCHANGED registryVars

\* Analyzer::getVolume, isWatertight, getBoundingBox, getVertexCount and
\* getTriangleCount; the mesh pointer is never null after construction.
GetVolume == StoreResult("getVolume", <<>>, MeshGetVolume(vertices, faces))

IsWatertight == StoreResult("isWatertight", <<>>, MeshIsWatertight(faces))

GetBoundingBox == StoreResult("getBoundingBox", <<>>, MeshGetBoundingBox(vertices))

GetVertexCount == StoreResult("getVertexCount", <<>>, Len(vertices))

GetTriangleCount == StoreResult("getTriangleCount", <<>>, Len(faces))

\* A search that also turns the stored mesh, moving each vertex's x, y, z to
\* y, z, x.
AutoOrientTurning(sampleResolution, angle) ==
    /\ queryResult' = [op |-> "autoOrient", args |-> <<sampleResolution, angle>>,
                       value |-> AutoOrientOf(sampleResolution, angle, vertices, faces)]
    /\ vertices' = [i \in 1..Len(vertices) |->
                       <<vertices[i][2], vertices[i][3], vertices[i][1]>>]
    /\ lastOp' = "autoOrient"
    /\ lastOk' = TRUE
    /\ lastBuf' = NoBuf
    /\ preVertices' = vertices
    /\ preFaces' = faces
    /\ report' = NoReport
    /\ rayQuery' = NoQuery
    /\ rayHit' = NoHit
    /\ UNCHANGED <<faces, spatialTree, coordExp, builtSinceLoad>>
    /\ UNCHANGED registryVars

\* Analyzer::autoOrient.
AutoOrient(sampleResolution, angle) ==
    StoreResult("autoOrient", <<sampleResolution, angle>>,
                AutoOrientOf(sampleResolution, angle, vertices, faces))

\* The default of sampleResolution, and a value that would stop inside the
\* cardinal directions.
DefaultResolution == 26

ShortResolution == 3

Resolutions == {ShortResolution, DefaultResolution}

\* The largest x of the grid origins, and the origins: below and above the
\* plates, at whole coordinates.
RayMax == 1

GridOrigins == {<<x, 0, z>> : x \in {0, RayMax}, z \in {-1, PlateGap + 1}}

RayDirections == {<<0, 0, 1>>, <<0, 0, -1>>, <<1, 0, 1>>}

\* An origin 1 / NearDenominator under the first bottom triangle, with the
\* unit direction +z: the bottom plate is 5e-7 away.
NearDenominator == 2000000

NearRay ==
    [o |-> <<NearDenominator \div 4, NearDenominator \div 4, -1>>,
     od |-> NearDenominator, d |-> <<0, 0, 1>>, dd |-> 1]

Rays ==
    {[o |-> o, od |-> 1, d |-> d, dd |-> 1] : o \in GridOrigins, d \in RayDirections}
    \cup {NearRay}

\* The finite maxDistance given to rayCast, and the distances given.
MaxDistanceBound == 2

MaxDistances == {<<MaxDistanceBound, 1>>, DBL_MAX}

\* The minimum wall thicknesses given to getPrintabilityReport.
MinWalls == {<<1, 2>>, <<2, 1>>}

Next ==
    \/ \E data \in Buffers : LoadSTLFromBytes(data)
    \/ \E file \in FilesOf(FileBuffers) : LoadSTL(file)
    \/ BuildSpatialIndex
    \/ \E angle \in AngleSet, minWall \in MinWalls : GetPrintabilityReport(angle, minWall)
    \/ \E ray \in Rays, maxDistance \in MaxDistances : RayCastTree(ray, maxDistance)
    \/ GetVolume
    \/ IsWatertight
    \/ GetBoundingBox
    \/ GetVertexCount
    \/ GetTriangleCount
    \/ \E angle \in OrientAngles : AutoOrient(DefaultResolution, angle)

Spec == Init /\ [][Next]_vars

-----------------------------------------------------------------------------
(* Loads of buffers whose coordinates are multiples of 1e-10, so that      *)
(* distinct vertices closer than the epsilon of Vector3::operator== occur. *)

\* The exponent of the coordinate unit of the near buffers.
NearExp == 10

\* Four corners: NearB lies 5e-10 from NearA, the others 2e-9 away.
NearA == <<0, 0, 0>>

NearB == <<5, 0, 0>>

NearC == <<20, 0, 0>>

NearD == <<0, 20, 0>>

\* Records over the corners: two that differ in one near corner, one that
\* lists known corners in another order, and a degenerate one.
NearRecs ==
    {<<NearA, NearC, NearD>>, <<NearB, NearC, NearD>>, <<NearD, NearC, NearA>>,
     <<NearB, NearB, NearC>>}

\* The largest triangle count of a near buffer.
MaxNearRecs == 2

RecSeqs(n) == UNION {[1..k -> NearRecs] : k \in 0..n}

\* Well-formed buffers of up to MaxNearRecs records, and the truncated
\* buffer of one record that announces two.
NearBuffers ==
    {MkBuf(HeaderBytes + Len(rs) * RecordBytes, <<0, Len(rs)>>, rs) : rs \in RecSeqs(MaxNearRecs)}
    \cup {MkBuf(HeaderBytes + RecordBytes, <<0, 2>>, <<<<NearA, NearC, NearD>>>>)}

\* The near buffers that readable files hold: those of one record.
NearFileBuffers == {b \in NearBuffers : Len(b.recs) = 1}

InitLoad ==
    /\ vertices = <<>>
    /\ faces = <<>>
    /\ spatialTree = NoTree
    /\ coordExp = NearExp
    /\ lastOp = "init"
    /\ lastOk = TRUE
    /\ lastBuf = NoBuf
    /\ preVertices = <<>>
    /\ preFaces = <<>>
    /\ builtSinceLoad = FALSE
    /\ report = NoReport
    /\ rayQuery = NoQuery
    /\ rayHit = NoHit
    /\ queryResult = NoResult
    /\ InitRegistry

NextLoad ==
    \/ \E data \in NearBuffers : LoadSTLFromBytes(data)
    \/ \E file \in FilesOf(NearFileBuffers) : LoadSTL(file)

SpecLoad == InitLoad /\ [][NextLoad]_vars

-----------------------------------------------------------------------------
(* Queries on closed and nearly closed meshes: a unit cube, moved, opened, *)
(* turned inside out, with one triangle flipped and with one doubled.      *)

\* The two triangles of the quad p, q, r, s.
QuadRecs(p, q, r, s) == <<<<p, q, r>>, <<p, r, s>>>>

\* The unit cube with its lowest corner at t, every quad counter-clockwise
\* seen from outside; the quad facing +z comes last.
CubeRecs(t) ==
    LET P(x, y, z) == <<t[1] + x, t[2] + y, t[3] + z>>
    IN QuadRecs(P(0, 0, 0), P(0, 1, 0), P(1, 1, 0), P(1, 0, 0))
       \o QuadRecs(P(0, 0, 0), P(1, 0, 0), P(1, 0, 1), P(0, 0, 1))
       \o QuadRecs(P(0, 1, 0), P(0, 1, 1), P(1, 1, 1), P(1, 1, 0))
       \o QuadRecs(P(0, 0, 0), P(0, 0, 1), P(0, 1, 1), P(0, 1, 0))
       \o QuadRecs(P(1, 0, 0), P(1, 1, 0), P(1, 1, 1), P(1, 0, 1))
       \o QuadRecs(P(0, 0, 1), P(1, 0, 1), P(1, 1, 1), P(0, 1, 1))

\* A record with the opposite winding.
Flipped(rec) == <<rec[1], rec[3], rec[2]>>

\* Where the moved cube has its lowest corner.
CubeShift == <<2, -1, 3>>

Origin == <<0, 0, 0>>

\* The record sequences of the query buffers.
CubeMeshes ==
    { CubeRecs(Origin),
      CubeRecs(CubeShift),
      SubSeq(CubeRecs(Origin), 1, 10),
      SubSeq(CubeRecs(CubeShift), 3, 12),
      [k \in 1..12 |-> Flipped(CubeRecs(CubeShift)[k])],
      [k \in 1..12 |-> IF k = 12 THEN Flipped(CubeRecs(Origin)[k])
                       ELSE CubeRecs(Origin)[k]],
      Append(CubeRecs(Origin), CubeRecs(Origin)[1]) }

\* The buffers of the query specification: the cube meshes, a mesh without
\* triangles and a buffer too short for a header.
QueryBuffers ==
    {MkBuf(HeaderBytes + Len(rs) * RecordBytes, <<0, Len(rs)>>, rs) : rs \in CubeMeshes}
    \cup {MkBuf(HeaderBytes, <<0, 0>>, <<>>), MkBuf(50, <<0, 0>>, <<>>)}

NextQuery ==
    \/ \E data \in QueryBuffers : LoadSTLFromBytes(data)
    \/ GetVolume
    \/ IsWatertight
    \/ GetBoundingBox
    \/ GetVertexCount
    \/ GetTriangleCount
    \/ \E sampleResolution \in Resolutions, angle \in QueryAngles :
          AutoOrient(sampleResolution, angle)

SpecQuery == Init /\ [][NextQuery]_vars

-----------------------------------------------------------------------------
(* Properties of loading (Spec: whole-unit coordinates, every operation).  *)

LoadOps == {"loadSTL", "loadSTLFromBytes"}

\* size >= 84 + 50 * N for the true N = count[1] * 2^16 + count[2], compared
\* limb by limb against (size - 84) \div 50.
HoldsRecords(size, count) ==
    LET q == (size - HeaderBytes) \div RecordBytes
    IN /\ size >= HeaderBytes
       /\ \/ count[1] < q \div LimbBase
          \/ count[1] = q \div LimbBase /\ count[2] <= q % LimbBase

\* C1: a load that returned false left the vertex and face arrays exactly as
\* they were before the call.
C1_FailedLoadKeepsMesh ==
    (lastOp \in LoadOps /\ ~lastOk) => (vertices = preVertices /\ faces = preFaces)

\* C2: from a successful load until the next buildSpatialIndex call the
\* Analyzer holds no spatial index.
C2_LoadDropsIndex == ~builtSinceLoad => spatialTree = NoTree

\* C3: a getPrintabilityReport call made when buildSpatialIndex has not been
\* called since the most recent load runs no wall-thickness probe and reports
\* thinWallVertexCount = 0.
C3_NoProbeBeforeBuild ==
    (lastOp = "getPrintabilityReport" /\ ~builtSinceLoad)
        => (~report.probed /\ report.probes = 0 /\ report.thinWallVertexCount = 0)

\* C4: a load from a buffer succeeds only if size >= 84 and size >= 84 + 50 N
\* for the N at offset 80, the sum taken without wrap-around.
C4_SuccessNeedsFullSize ==
    (lastOp \in LoadOps /\ lastOk) => HoldsRecords(lastBuf.size, lastBuf.count)

\* A buffer whose count makes 84 + 50 N wrap below its size was loaded and
\* refused.
C4_WrappedCountRefused ==
    /\ lastOp = "loadSTLFromBytes"
    /\ lastBuf.count[1] > 0
    /\ ~SizeBelow(lastBuf.size, ExpectedSize(lastBuf.count))
    /\ ~HoldsRecords(lastBuf.size, lastBuf.count)
    /\ ~lastOk

-----------------------------------------------------------------------------
(* Properties of the ray cast.                                             *)

\* The tree the Analyzer holds was built from the mesh it holds.
TreeIsCurrent ==
    /\ Len(vertices) > 0
    /\ \E tie \in TieOrders : spatialTree = Build(vertices, faces, tie)

\* The Moeller-Trumbore test of triangle i (0-based) of the mesh.
MtOfFace(i, ray) ==
    IntersectRayTriangle(ray, vertices[faces[i + 1][1] + 1],
                         vertices[faces[i + 1][2] + 1], vertices[faces[i + 1][3] + 1])

\* The triangles a test of every triangle reports as hit within maxDistance.
BruteForceHits(ray, maxDistance) ==
    {i \in 0..(Len(faces) - 1) :
        MtOfFace(i, ray).hit /\ QLess(MtOfFace(i, ray).t, maxDistance)}

\* Triangle i is hit no later than every other triangle of `hits`.
IsNearest(i, hits, ray) ==
    \A j \in hits : ~QLess(MtOfFace(j, ray).t, MtOfFace(i, ray).t)

\* C5: when testing every triangle finds a hit within maxDistance, rayCast on
\* the tree of the same mesh returns hit = true, the smallest such distance
\* and a triangle that attains it.
C5_RayCastFindsNearestHit ==
    (/\ lastOp = "rayCast"
     /\ TreeIsCurrent
     /\ BruteForceHits(rayQuery.ray, rayQuery.maxDistance) # {})
        => /\ rayHit.hit
           /\ rayHit.triangleIndex \in BruteForceHits(rayQuery.ray, rayQuery.maxDistance)
           /\ IsNearest(rayHit.triangleIndex,
                        BruteForceHits(rayQuery.ray, rayQuery.maxDistance), rayQuery.ray)
           /\ rayHit.distance = MtOfFace(rayHit.triangleIndex, rayQuery.ray).t

-----------------------------------------------------------------------------
(* Properties of the decoded mesh.                                         *)

\* C6: every index of every face lies in [0, |vertices|), after successful
\* and after failed loads.
C6_FaceIndicesInRange ==
    \A i \in 1..Len(faces) : \A j \in 1..3 :
        faces[i][j] >= 0 /\ faces[i][j] < Len(vertices)

\* A failed load left the faces it had decoded before it stopped.
C6_PartialMeshAfterFailure == lastOp \in LoadOps /\ ~lastOk /\ Len(faces) > 0

\* C7: after a successful load the number of faces is the triangle count N
\* of the header; degenerate records count as well.
C7_FaceCountIsHeaderCount ==
    (lastOp \in LoadOps /\ lastOk) => lastBuf.count = <<0, Len(faces)>>

\* A record naming a corner twice was loaded with success.
C7_DegenerateRecordLoaded ==
    /\ lastOp \in LoadOps /\ lastOk
    /\ \E i \in 1..Len(lastBuf.recs) : lastBuf.recs[i][1] = lastBuf.recs[i][2]
    /\ Len(faces) = Len(lastBuf.recs)

\* The records a successful load decoded: the first N of the buffer.
Decoded(buf) == SubSeq(buf.recs, 1, buf.count[2])

\* The corners of the records in the order the buffer lists them.
Corners(recs) ==
    [p \in 1..(3 * Len(recs)) |-> recs[((p - 1) \div 3) + 1][((p - 1) % 3) + 1]]

\* The position at which the list of corners first names v.
FirstAt(flat, v) ==
    CHOOSE p \in 1..Len(flat) : flat[p] = v /\ \A q \in 1..(p - 1) : flat[q] # v

\* C8: no two distinct entries of the vertex array have identical
\* coordinates.
C8_NoIdenticalVertices ==
    \A i \in 1..Len(vertices) : \A j \in 1..Len(vertices) :
        i # j => vertices[i] # vertices[j]

\* Two records that share corners were loaded into fewer vertices than the
\* corners they list.
C8_SharedCornersMerged ==
    /\ lastOp \in LoadOps /\ lastOk
    /\ Len(faces) = 2
    /\ Len(vertices) < 6
    /\ Len(vertices) > 0

\* C9, as stated: no two distinct entries of the vertex array are equal
\* under the epsilon-equality of Vector3::operator==.
C9_NoEpsilonEqualVertices ==
    \A i \in 1..Len(vertices) : \A j \in 1..Len(vertices) :
        i # j => ~EpsEqual(vertices[i], vertices[j])

\* C9, amended: any two distinct entries of the vertex array are ordered one
\* way or the other by Vector3::operator<, and every corner a successful load
\* decoded is an entry with exactly its coordinates; entries closer than
\* epsilon are kept apart.
C9_VerticesExactlyDistinct ==
    /\ \A i \in 1..Len(vertices) : \A j \in 1..Len(vertices) :
          i # j => (Less(vertices[i], vertices[j]) \/ Less(vertices[j], vertices[i]))
    /\ (lastOp \in LoadOps /\ lastOk) =>
          \A p \in 1..(3 * Len(Decoded(lastBuf))) :
              \E k \in 1..Len(vertices) : vertices[k] = Corners(Decoded(lastBuf))[p]

\* A load kept two vertices that are equal under epsilon-equality.
C9_NearVerticesKept ==
    /\ lastOp \in LoadOps /\ lastOk
    /\ \E i \in 1..Len(vertices) : \E j \in 1..Len(vertices) :
          i # j /\ EpsEqual(vertices[i], vertices[j])

\* C10: vertex k is the k-th distinct corner in the order the records list
\* them, and face i holds, in order, the indices of the corners of record i.
C10_FirstOccurrenceOrder ==
    (lastOp \in LoadOps /\ lastOk) =>
        /\ {vertices[k] : k \in 1..Len(vertices)}
               = {Corners(Decoded(lastBuf))[p] : p \in 1..(3 * Len(Decoded(lastBuf)))}
        /\ \A k \in 1..Len(vertices) : \A l \in 1..Len(vertices) :
              k < l => FirstAt(Corners(Decoded(lastBuf)), vertices[k])
                         < FirstAt(Corners(Decoded(lastBuf)), vertices[l])
        /\ Len(faces) = Len(Decoded(lastBuf))
        /\ \A i \in 1..Len(faces) : \A j \in 1..3 :
              /\ faces[i][j] \in 0..(Len(vertices) - 1)
              /\ vertices[faces[i][j] + 1] = Decoded(lastBuf)[i][j]

\* A second record named the corners of the first in reverse, and its face
\* holds their indices in that order.
C10_ReversedRecordLoaded ==
    /\ lastOp \in LoadOps /\ lastOk
    /\ Len(faces) = 2
    /\ faces[1] = <<0, 1, 2>>
    /\ faces[2] = <<2, 1, 0>>

-----------------------------------------------------------------------------
(* Properties of re-loading, of the mesh queries and of the report.        *)

SidesJoining(a, b) ==
    Cardinality({side \in (1..Len(faces)) \X (1..3) :
                    {faces[side[1]][side[2]], faces[side[1]][(side[2] % 3) + 1]} = {a, b}})

\* Every side of every face lies on an edge that exactly two sides share.
EveryEdgeTwice ==
    \A k \in 1..Len(faces), i \in 1..3 :
        SidesJoining(faces[k][i], faces[k][(i % 3) + 1]) = 2

\* C12: isWatertight returns true exactly when the mesh has a face and every
\* undirected edge of its faces occurs exactly twice; a mesh without faces, a
\* boundary edge and an edge of three or more faces all give false.
C12_WatertightIffEveryEdgeTwice ==
    queryResult.op = "isWatertight" =>
        queryResult.value = (Len(faces) > 0 /\ EveryEdgeTwice)

\* C12 witness: isWatertight returned false for a mesh without boundary edges
\* in which one edge is shared by three faces.
C12_NonManifoldEdgeRefused ==
    /\ queryResult.op = "isWatertight"
    /\ queryResult.value = FALSE
    /\ Len(faces) > 0
    /\ \A k \in 1..Len(faces), i \in 1..3 :
           SidesJoining(faces[k][i], faces[k][(i % 3) + 1]) >= 2
    /\ \E k \in 1..Len(faces), i \in 1..3 :
           SidesJoining(faces[k][i], faces[k][(i % 3) + 1]) = 3

\* The number of face sides that run from vertex a to vertex b.
SidesFromTo(a, b) ==
    Cardinality({side \in (1..Len(faces)) \X (1..3) :
                    /\ faces[side[1]][side[2]] = a
                    /\ faces[side[1]][(side[2] % 3) + 1] = b})

\* The mesh is closed and consistently oriented: every side of every face is
\* the only one in its direction and meets exactly one side running back.
ClosedOriented ==
    /\ Len(faces) > 0
    /\ \A k \in 1..Len(faces), i \in 1..3 :
          /\ SidesFromTo(faces[k][i], faces[k][(i % 3) + 1]) = 1
          /\ SidesFromTo(faces[k][(i % 3) + 1], faces[k][i]) = 1

\* The translations and rotations the volume is compared under.  A rotation
\* is an integer matrix m over the scale s, standing for m / s: quarter turns
\* about z and about x, and the turn about z by the angle of the 3-4-5
\* triangle.
Translations == {<<1, 0, 0>>, <<-3, 2, 5>>, <<7, 7, 7>>}

Rotations ==
    {[m |-> <<<<0, -1, 0>>, <<1, 0, 0>>, <<0, 0, 1>>>>, s |-> 1],
     [m |-> <<<<1, 0, 0>>, <<0, 0, -1>>, <<0, 1, 0>>>>, s |-> 1],
     [m |-> <<<<3, -4, 0>>, <<4, 3, 0>>, <<0, 0, 5>>>>, s |-> 5]}

Translated(V, t) == [k \in 1..Len(V) |-> VAdd(V[k], t)]

\* s * (R . v) for every vertex v.
Rotated(V, R) ==
    [k \in 1..Len(V) |-> <<Dot(R.m[1], V[k]), Dot(R.m[2], V[k]), Dot(R.m[3], V[k])>>]

\* The quotient q equals vol / s^3.
IsScaledBy(vol, s, q) == vol[1] * q[2] = q[1] * vol[2] * s * s * s

\* C13: getVolume never returns a negative value, and for a closed,
\* consistently oriented mesh it returns the same value for the mesh moved by
\* any translation, turned by any rotation, and turned and then moved.
C13_VolumeRigidMotionInvariant ==
    queryResult.op = "getVolume" =>
        /\ queryResult.value[1] >= 0
        /\ queryResult.value[2] > 0
        /\ ClosedOriented =>
              /\ \A t \in Translations :
                    MeshGetVolume(Translated(vertices, t), faces) = queryResult.value
              /\ \A R \in Rotations :
                    IsScaledBy(MeshGetVolume(Rotated(vertices, R), faces), R.s,
                               queryResult.value)
              /\ \A R \in Rotations, t \in Translations :
                    IsScaledBy(MeshGetVolume(Translated(Rotated(vertices, R), t), faces),
                               R.s, queryResult.value)

\* C13 witness: getVolume returned 1 for the unit cube that lies away from
\* the origin and is oriented inwards, so that the signed sum is negative.
C13_InwardCubeAwayFromOrigin ==
    /\ queryResult.op = "getVolume"
    /\ ClosedOriented
    /\ vertices[1] = CubeShift
    /\ VolumeLoop(Len(faces), vertices, faces) < 0
    /\ queryResult.value = <<1, 1>>

\* The Analyzer's mesh holds neither vertices nor faces.
EmptyMesh == Len(vertices) = 0 /\ Len(faces) = 0

\* C14: while the mesh is empty every query returns its identity value:
\* volume 0, not watertight, bounding box (0, 0, 0), counts 0, a report with
\* zero areas and no thin-wall vertex that cast no probe ray, and an
\* orientation result with zero areas and zero improvement.
C14_EmptyMeshQueriesGiveIdentity ==
    EmptyMesh =>
        /\ queryResult.op = "getVolume" => queryResult.value = <<0, 1>>
        /\ queryResult.op = "isWatertight" => queryResult.value = FALSE
        /\ queryResult.op = "getBoundingBox" => queryResult.value = <<0, 0, 0>>
        /\ queryResult.op = "getVertexCount" => queryResult.value = 0
        /\ queryResult.op = "getTriangleCount" => queryResult.value = 0
        /\ queryResult.op = "autoOrient" =>
              /\ queryResult.value.originalOverhangArea = <<0, 1>>
              /\ queryResult.value.optimizedOverhangArea = <<0, 1>>
              /\ queryResult.value.improvementPercent = <<0, 1>>
        /\ report # NoReport =>
              /\ report.overhangArea = <<0, 1>>
              /\ report.totalSurfaceArea = <<0, 1>>
              /\ report.thinWallVertexCount = 0
              /\ report.probes = 0
              /\ ~report.ub

\* C14 witness: isWatertight was asked of an Analyzer whose mesh a failed load
\* had emptied and which still holds the tree built for the mesh before.
C14_QueryAfterMeshWasEmptied ==
    /\ EmptyMesh
    /\ queryResult.op = "isWatertight"
    /\ spatialTree.kind = "tree"

\* a <= b for two finite quotients.
QLeq(a, b) == ~QLess(b, a)

\* C15: every report getPrintabilityReport returns, for every mesh, tree,
\* critical angle and minimum wall thickness, has 0 <= score <= 100.
C15_ScoreWithinBounds ==
    report # NoReport =>
        /\ report.score[2] > 0
        /\ QLeq(<<0, 1>>, report.score)
        /\ QLeq(report.score, <<100, 1>>)

\* C15 witness: a report whose probe loop ran and found every vertex thin,
\* on a mesh of which half the area overhangs.
C15_PenalisedReport ==
    /\ report # NoReport
    /\ report.probes > 0
    /\ report.thinWallVertexCount = Len(vertices)
    /\ report.overhangPercentage = <<50, 1>>
    /\ QLess(report.score, <<100, 1>>)

\* min(x, 50) and the clamp of x to [0, 100].
CapAtFifty(x) == IF QLess(<<50, 1>>, x) THEN <<50, 1>> ELSE x

Clamped(x) ==
    IF QLess(x, <<0, 1>>) THEN <<0, 1>>
    ELSE IF QLess(<<100, 1>>, x) THEN <<100, 1>> ELSE x

\* 100 * overhangArea / totalSurfaceArea of a report, or 0 without area.
PercentOf(r) ==
    IF r.totalSurfaceArea[1] > 0
    THEN Quot(100 * r.overhangArea[1] * r.totalSurfaceArea[2],
              r.overhangArea[2] * r.totalSurfaceArea[1])
    ELSE <<0, 1>>

-----------------------------------------------------------------------------
(* Properties of autoOrient (SpecQuery).                                   *)

\* Twice the overhang area of the mesh for the up direction `up`, at the
\* critical angle of the last autoOrient call.
ScanOf(up) == AnalyzeOverhangs(up, queryResult.args[2], vertices, faces).overhang2

\* The directions the search looks at: the Z-up baseline and the candidates.
Tested == {<<0, 0, 1>>} \cup {Candidates[k] : k \in 1..Len(Candidates)}

\* C17: optimizedOverhangArea is the minimum of the overhang scan over the
\* Z-up baseline and every candidate, optimalUpVector is a direction whose
\* scan gives that minimum, and optimizedOverhangArea <= originalOverhangArea.
C17_AutoOrientKeepsMinimum ==
    queryResult.op = "autoOrient" =>
        /\ QLeq(queryResult.value.optimizedOverhangArea,
                queryResult.value.originalOverhangArea)
        /\ Len(vertices) > 0 =>
              /\ queryResult.value.originalOverhangArea = Quot(ScanOf(<<0, 0, 1>>), 2)
              /\ queryResult.value.optimalUpVector \in Tested
              /\ queryResult.value.optimizedOverhangArea =
                    Quot(ScanOf(queryResult.value.optimalUpVector), 2)
              /\ \A up \in Tested : ScanOf(queryResult.value.optimalUpVector) <= ScanOf(up)

\* C17 witness: a search in which a candidate beat the baseline, on a mesh
\* for which every direction has some overhang.
C17_CandidateBeatsBaseline ==
    /\ queryResult.op = "autoOrient"
    /\ queryResult.value.optimalUpVector # <<0, 0, 1>>
    /\ QLess(<<0, 1>>, queryResult.value.optimizedOverhangArea)
    /\ QLess(queryResult.value.optimizedOverhangArea,
             queryResult.value.originalOverhangArea)

\* C18: called with a resolution below 26, autoOrient returns the Z-up
\* baseline or one of the first `resolution` candidates as optimalUpVector.
C18_ResolutionTakesPrefix ==
    (queryResult.op = "autoOrient" /\ queryResult.args[1] < Len(Candidates)) =>
        queryResult.value.optimalUpVector \in
            {<<0, 0, 1>>} \cup {Candidates[k] : k \in 1..queryResult.args[1]}

-----------------------------------------------------------------------------
(* Ray casts on the plates stored in the opposite order, so that the order *)
(* of the face array and the order of the centroids along x disagree.      *)

ReversedPlateRecs ==
    [k \in 1..Len(PlateRecs) |-> PlateRecs[Len(PlateRecs) + 1 - k]]

RayBuffers ==
    {MkBuf(HeaderBytes + Len(ReversedPlateRecs) * RecordBytes,
           <<0, Len(ReversedPlateRecs)>>, ReversedPlateRecs),
     MkBuf(HeaderBytes, <<0, 0>>, <<>>)}

NextRay ==
    \/ \E data \in RayBuffers : LoadSTLFromBytes(data)
    \/ BuildSpatialIndex
    \/ \E ray \in Rays, maxDistance \in MaxDistances : RayCastTree(ray, maxDistance)

SpecRay == Init /\ [][NextRay]_vars

-----------------------------------------------------------------------------
(* Properties of AABBTree::rayCast on ties and without a tree.             *)

\* The triangles the ray of the last cast meets at the distance it returned.
HitAtReturnedDistance ==
    {j \in 0..(Len(faces) - 1) :
        /\ MtOfFace(j, rayQuery.ray).hit
        /\ MtOfFace(j, rayQuery.ray).t = rayHit.distance}

\* C19: of the triangles the ray meets at the returned distance, rayCast
\* returns the one with the lowest index in the face array.
C19_TieGoesToLowestIndex ==
    (lastOp = "rayCast" /\ TreeIsCurrent /\ rayHit.hit) =>
        \A j \in HitAtReturnedDistance : rayHit.triangleIndex <= j

\* C20: rayCast on a tree that was never built returns the default RayHit
\* for every ray and every maxDistance: no hit, distance DBL_MAX, triangle
\* index -1.
C20_UnbuiltTreeMisses ==
    (lastOp = "rayCast" /\ spatialTree = NoTree) =>
        /\ rayHit.hit = FALSE
        /\ rayHit.distance = DBL_MAX
        /\ rayHit.triangleIndex = -1

\* C20 witness: the miss was returned although the Analyzer holds a mesh of
\* which the ray meets a triangle within maxDistance.
C20_MissDespiteMesh ==
    /\ lastOp = "rayCast"
    /\ spatialTree = NoTree
    /\ Len(faces) > 0
    /\ BruteForceHits(rayQuery.ray, rayQuery.maxDistance) # {}
    /\ rayHit.hit = FALSE

-----------------------------------------------------------------------------
(* Properties of the overhang scan (SpecQuery).                            *)

\* Whether the scan for `up` counts face k of the mesh as an overhang, at the
\* critical angle of the last autoOrient call.
CountedFor(k, up) == IsOverhang(faces[k], up, queryResult.args[2], vertices)

\* Twice the area of face k of the mesh.
FaceArea2(k) ==
    TriangleArea2(vertices[faces[k][1] + 1], vertices[faces[k][2] + 1],
                  vertices[faces[k][3] + 1])

\* Twice the area of the faces 1..k counted neither for up nor for -up.
RECURSIVE RemainingArea2(_, _)
RemainingArea2(k, up) ==
    IF k = 0 THEN 0
    ELSE RemainingArea2(k - 1, up)
         + (IF CountedFor(k, up) \/ CountedFor(k, VScale(up, -1)) THEN 0 ELSE FaceArea2(k))

\* Twice the total area the scan reports.
TotalOf(up) == AnalyzeOverhangs(up, queryResult.args[2], vertices, faces).total2

\* The three classes of faces are disjoint and their areas add up to the total.
SplitsInThree(up) ==
    /\ \A k \in 1..Len(faces) : ~(CountedFor(k, up) /\ CountedFor(k, VScale(up, -1)))
    /\ ScanOf(up) + ScanOf(VScale(up, -1)) + RemainingArea2(Len(faces), up) = TotalOf(up)
    /\ ScanOf(up) + ScanOf(VScale(up, -1)) <= TotalOf(up)

\* C21 as stated: for every mesh, up direction and critical angle, no face is
\* an overhang both for up and for -up, overhangArea(up) + overhangArea(-up)
\* + the area of the remaining faces = totalSurfaceArea, and overhangArea(up)
\* + overhangArea(-up) <= totalSurfaceArea.
C21_OverhangsSplitAtEveryAngle ==
    (queryResult.op = "autoOrient" /\ Len(vertices) > 0) =>
        \A up \in Tested : SplitsInThree(up)

\* C21 amended: the same for critical angles from 0 to 90 degrees, where the
\* cosine is not negative.
C21_OverhangsSplitUpToRightAngle ==
    (queryResult.op = "autoOrient" /\ Len(vertices) > 0 /\ queryResult.args[2] <= 90) =>
        \A up \in Tested : SplitsInThree(up)

\* C21 witness: a search at an acute angle on a mesh that has faces of all
\* three classes for Z-up.
C21_AllThreeClasses ==
    /\ queryResult.op = "autoOrient"
    /\ queryResult.args[2] = 60
    /\ Len(vertices) > 0
    /\ ScanOf(<<0, 0, 1>>) > 0
    /\ ScanOf(<<0, 0, -1>>) > 0
    /\ RemainingArea2(Len(faces), <<0, 0, 1>>) > 0

-----------------------------------------------------------------------------
(* The mesh between loads (Spec).                                          *)

\* The operations of the Analyzer other than the two loads.
QueryOps ==
    {"buildSpatialIndex", "getPrintabilityReport", "rayCast", "getVolume",
     "isWatertight", "getBoundingBox", "getVertexCount", "getTriangleCount",
     "autoOrient"}

\* C22: getVolume, isWatertight, getBoundingBox, getVertexCount,
\* getTriangleCount, buildSpatialIndex, getPrintabilityReport and autoOrient
\* leave the vertex array and the face array as they were before the call;
\* a call after which either array differs is a load.
C22_OnlyLoadsChangeMesh ==
    /\ lastOp \in QueryOps => (vertices = preVertices /\ faces = preFaces)
    /\ (vertices # preVertices \/ faces # preFaces) => lastOp \in LoadOps

\* C22 witness: autoOrient found a better direction than Z-up on a mesh that
\* it left in place.
C22_BetterDirectionMeshInPlace ==
    /\ lastOp = "autoOrient"
    /\ Len(vertices) > 0
    /\ queryResult.value.optimalUpVector # <<0, 0, 1>>
    /\ vertices = preVertices
    /\ faces = preFaces

-----------------------------------------------------------------------------
(* Matrix3::rotation (Vector3.hpp).  An axis is an integer vector times    *)
(* 10^(-axisExp); the angle is a number of quarter turns, for which the    *)
(* cosine and the sine are whole numbers.                                  *)

\* The exponent of the length below which Vector3::normalized returns zero.
NormExp == 10

\* Vector3::normalized of the vector n * 10^(-axisExp), as [n, d]: the zero
\* vector when the length is below 1e-10, else n / length.
NormalizedAt(n, axisExp) ==
    IF \/ Dot(n, n) = 0
       \/ axisExp > NormExp /\ ISqrt(Dot(n, n)) < Pow10(axisExp - NormExp)
    THEN [n |-> <<0, 0, 0>>, d |-> 1]
    ELSE [n |-> n, d |-> ISqrt(Dot(n, n))]

\* std::cos and std::sin of quarterTurns * PI / 2.
CosOf(quarterTurns) == <<1, 0, -1, 0>>[(quarterTurns % 4) + 1]

SinOf(quarterTurns) == <<0, 1, 0, -1>>[(quarterTurns % 4) + 1]

\* The sign with which s * k[l] enters the entry of row i and column j.
SineTerm(i, j, k) ==
    CASE <<i, j>> = <<1, 2>> -> -k[3]
      [] <<i, j>> = <<1, 3>> -> k[2]
      [] <<i, j>> = <<2, 1>> -> k[3]
      [] <<i, j>> = <<2, 3>> -> -k[1]
      [] <<i, j>> = <<3, 1>> -> -k[2]
      [] <<i, j>> = <<3, 2>> -> k[1]
      [] OTHER -> 0

\* The entry of row i and column j of Rodrigues' formula for the unit vector
\* k.n / k.d: t * k_i * k_j plus c on the diagonal, plus or minus s * k_l off it.
RotationEntry(i, j, k, c, s) ==
    Quot((1 - c) * k.n[i] * k.n[j]
           + (IF i = j THEN c * k.d * k.d ELSE s * SineTerm(i, j, k.n) * k.d),
         k.d * k.d)

\* Matrix3::rotation: the function has one return statement, the matrix.
Matrix3Rotation(axis, axisExp, quarterTurns) ==
    [kind |-> "matrix",
     m |-> [i \in 1..3 |-> [j \in 1..3 |->
              RotationEntry(i, j, NormalizedAt(axis, axisExp),
                            CosOf(quarterTurns), SinOf(quarterTurns))]]]

\* A call of Matrix3::rotation.
Rotation(axis, axisExp, quarterTurns) ==
    StoreResult("rotation", <<axis, axisExp, quarterTurns>>,
                Matrix3Rotation(axis, axisExp, quarterTurns))

\* The axes: the vectors with coordinates of size up to AxisMax whose length
\* is a whole number, the zero vector among them.
AxisMax == 4

Axes ==
    {a \in (-AxisMax..AxisMax) \X (-AxisMax..AxisMax) \X (-AxisMax..AxisMax) :
        \E r \in 0..(2 * AxisMax) : r * r = Dot(a, a)}

\* Axes in whole units, and in units of 10^(-TinyExp).
TinyExp == 11

AxisExps == {0, TinyExp}

QuarterTurns == 0..3

NextRotation ==
    \E axis \in Axes, axisExp \in AxisExps, quarterTurns \in QuarterTurns :
        Rotation(axis, axisExp, quarterTurns)

SpecRotation == Init /\ [][NextRotation]_vars

\* Whether the axis of the last rotation call normalizes to the zero vector.
AxisNormalizesToZero ==
    NormalizedAt(queryResult.args[1], queryResult.args[2]).n = <<0, 0, 0>>

\* C23: Matrix3::rotation fails with InvalidAxis whenever the axis normalizes
\* to the zero vector, and returns a matrix only for an axis that does not.
C23_ZeroAxisIsRefused ==
    queryResult.op = "rotation" =>
        (queryResult.value.kind = "InvalidAxis" <=> AxisNormalizesToZero)

-----------------------------------------------------------------------------
(* Properties of the tree the Analyzer holds (Spec).                       *)

\* The triangle indices stored in the leaves below a node, left to right.
RECURSIVE LeafIndices(_)
LeafIndices(node) ==
    IF node.kind = "null" THEN <<>>
    ELSE IF IsLeaf(node) THEN node.triangleIndices
    ELSE LeafIndices(node.left) \o LeafIndices(node.right)

\* The triangle indices the Analyzer's tree holds.
HeldIndices ==
    IF spatialTree.kind = "tree"
    THEN {LeafIndices(spatialTree.root)[k] : k \in 1..Len(LeafIndices(spatialTree.root))}
    ELSE {}

\* C26: after any sequence of loads, buildSpatialIndex and
\* getPrintabilityReport calls, every triangle index stored in the Analyzer's
\* tree is an index into the current face array, every vertex index of such
\* a face is an index into the current vertex array, and no wall-thickness
\* probe has read the mesh arrays out of bounds.
C26_HeldIndicesWithinMesh ==
    /\ \A t \in HeldIndices :
          /\ t >= 0 /\ t < Len(faces)
          /\ \A c \in 1..3 : faces[t + 1][c] >= 0 /\ faces[t + 1][c] < Len(vertices)
    /\ lastOp = "getPrintabilityReport" => ~report.ub

-----------------------------------------------------------------------------
(* Building the tree over boxes of different proportions, alone and in     *)
(* pairs, so that nodes are split along each axis and at odd sizes.        *)

\* The box with its lowest corner at t and the edge lengths e, every quad
\* counter-clockwise seen from outside.
BoxRecs(t, e) ==
    LET P(x, y, z) == <<t[1] + x * e[1], t[2] + y * e[2], t[3] + z * e[3]>>
    IN QuadRecs(P(0, 0, 0), P(0, 1, 0), P(1, 1, 0), P(1, 0, 0))
       \o QuadRecs(P(0, 0, 0), P(1, 0, 0), P(1, 0, 1), P(0, 0, 1))
       \o QuadRecs(P(0, 1, 0), P(0, 1, 1), P(1, 1, 1), P(1, 1, 0))
       \o QuadRecs(P(0, 0, 0), P(0, 0, 1), P(0, 1, 1), P(0, 1, 0))
       \o QuadRecs(P(1, 0, 0), P(1, 1, 0), P(1, 1, 1), P(1, 0, 1))
       \o QuadRecs(P(0, 0, 1), P(1, 0, 1), P(1, 1, 1), P(0, 1, 1))

\* The edge lengths of the single boxes: all equal, x longest, y and z equal
\* and longest, x and y equal and longest.
BoxExtents == {<<1, 1, 1>>, <<2, 1, 1>>, <<1, 2, 2>>, <<2, 2, 1>>}

\* Where the second box of a pair has its lowest corner.
PairShift == <<3, 0, 0>>

\* Two boxes side by side along x, the first longest along y and the second
\* along z; the same without the last triangle of the second.
PairRecs == BoxRecs(Origin, <<1, 2, 1>>) \o BoxRecs(PairShift, <<1, 1, 2>>)

BuildMeshes ==
    {BoxRecs(Origin, e) : e \in BoxExtents}
    \cup {PairRecs, SubSeq(PairRecs, 1, Len(PairRecs) - 1)}

BuildBuffers ==
    {MkBuf(HeaderBytes + Len(rs) * RecordBytes, <<0, Len(rs)>>, rs) : rs \in BuildMeshes}
    \cup {MkBuf(HeaderBytes, <<0, 0>>, <<>>)}

NextBuild ==
    \/ \E data \in BuildBuffers : LoadSTLFromBytes(data)
    \/ BuildSpatialIndex

SpecBuild == Init /\ [][NextBuild]_vars

\* The nodes at and below a node that lies at `depth`, each with its depth.
RECURSIVE NodesBelow(_, _)
NodesBelow(node, depth) ==
    IF node.kind = "null" THEN {}
    ELSE {[node |-> node, depth |-> depth]}
         \cup NodesBelow(node.left, depth + 1) \cup NodesBelow(node.right, depth + 1)

\* The nodes of the tree the Analyzer holds.
HeldNodes ==
    IF spatialTree.kind = "tree" THEN NodesBelow(spatialTree.root, 0) ELSE {}

\* How many triangle indices the leaves below a node hold.
IndexCount(node) == Len(LeafIndices(node))

\* The tree was built by the last call, from the mesh the Analyzer holds.
JustBuilt == lastOp = "buildSpatialIndex" /\ lastOk

\* C27: after a build on a mesh with N faces every index in 0..N-1 appears in
\* exactly one leaf and once in it; an inner node holds no indices and has
\* two children; a split node has more than 10 indices and its children
\* receive floor(n/2) and n - floor(n/2) of them, both at least one.
C27_LeavesPartitionTriangles ==
    JustBuilt =>
        /\ IndexCount(spatialTree.root) = Len(faces)
        /\ HeldIndices = 0..(Len(faces) - 1)
        /\ \A x \in HeldNodes :
              ~IsLeaf(x.node) =>
                  /\ x.node.triangleIndices = <<>>
                  /\ x.node.left.kind = "node"
                  /\ x.node.right.kind = "node"
                  /\ IndexCount(x.node) > MAX_LEAF_TRIANGLES
                  /\ IndexCount(x.node.left) = IndexCount(x.node) \div 2
                  /\ IndexCount(x.node.right) =
                        IndexCount(x.node) - IndexCount(x.node) \div 2
                  /\ IndexCount(x.node.left) > 0
                  /\ IndexCount(x.node.right) > 0

\* C27 witness: a tree just built in which a node with an odd number of
\* indices was split, below the root.
C27_OddNodeSplit ==
    /\ JustBuilt
    /\ \E x \in HeldNodes :
          /\ x.depth > 0
          /\ ~IsLeaf(x.node)
          /\ IndexCount(x.node) % 2 = 1

\* C28: in every built tree no node lies deeper than 32 and each leaf holds
\* at most 10 triangle indices or lies at depth 32.
C28_LeavesSmallOrAtMaxDepth ==
    \A x \in HeldNodes :
        /\ x.depth <= MAX_DEPTH
        /\ IsLeaf(x.node) =>
              (Len(x.node.triangleIndices) <= MAX_LEAF_TRIANGLES \/ x.depth = MAX_DEPTH)

\* C28 witness: a tree over more than 20 triangles, with leaves two levels
\* below the root.
C28_LeavesTwoLevelsDown ==
    /\ JustBuilt
    /\ Len(faces) > 2 * MAX_LEAF_TRIANGLES
    /\ \E x \in HeldNodes :
          IsLeaf(x.node) /\ x.depth = 2 /\ Len(x.node.triangleIndices) > 0

\* The edge lengths of a node's box.
ExtentOf(node) == VSub(node.bounds.max, node.bounds.min)

\* C29: the axis a split node is split along is a longest axis of its box,
\* and strictly longer than every axis before it in the order x, y, z.
C29_SplitAxisIsFirstLongest ==
    \A x \in HeldNodes :
        ~IsLeaf(x.node) =>
            /\ \A b \in 1..3 :
                  ExtentOf(x.node)[SplitAxis(x.node.bounds)] >= ExtentOf(x.node)[b]
            /\ \A b \in 1..(SplitAxis(x.node.bounds) - 1) :
                  ExtentOf(x.node)[SplitAxis(x.node.bounds)] > ExtentOf(x.node)[b]

\* C29 witness: one tree with a node split along each of the three axes.
C29_EveryAxisChosen ==
    /\ JustBuilt
    /\ \A a \in 1..3 :
          \E x \in HeldNodes : ~IsLeaf(x.node) /\ SplitAxis(x.node.bounds) = a

-----------------------------------------------------------------------------
(* ShapeRegistry (cad/ShapeRegistry.cpp).  A thread inside a method stands *)
(* at a block of the method: a block under std::lock_guard is entered by   *)
(* the step that takes the mutex and left by the step that carries out its *)
(* body and releases the mutex; the accesses the code makes outside every  *)
(* lock_guard begin with one step and end with another.  A shape is known  *)
(* by its estimated size, an operation key by its name and the shape ids   *)
(* the key string contains.                                                *)

analyzerVars ==
    <<vertices, faces, spatialTree, coordExp, lastOp, lastOk, lastBuf,
      preVertices, preFaces, builtSinceLoad, report, rayQuery, rayHit, queryResult>>

\* The hexadecimal digits of n, most significant first.
RECURSIVE HexDigits(_)
HexDigits(n) == IF n < 16 THEN <<n>> ELSE Append(HexDigits(n \div 16), n % 16)

\* The width std::setw gives the digits of an id.
IdWidth == 6

\* std::setw(width) << std::setfill('0'): zeros in front, up to the width.
RECURSIVE PadTo(_, _)
PadTo(digits, width) ==
    IF Len(digits) >= width THEN digits ELSE PadTo(<<0>> \o digits, width)

\* The id generateId builds from the counter: "shape_" and these digits.
FormatId(n) == PadTo(HexDigits(n), IdWidth)

\* The empty string registerShape returns for a null shape.
EmptyId == <<>>

\* m[k] = v, and m.erase of the keys K.
MapPut(m, k, v) == [x \in DOMAIN m \cup {k} |-> IF x = k THEN v ELSE m[x]]

MapErase(m, K) == [x \in DOMAIN m \ K |-> m[x]]

\* How far the clock runs.
MaxClock == 2

\* Time passes: steady_clock never goes back, and two readings with no tick
\* between them are equal.
Tick ==
    /\ steadyClock < MaxClock
    /\ steadyClock' = steadyClock + 1
    /\ UNCHANGED <<registry, threads, registryCall>>
    /\ UNCHANGED analyzerVars

\* A call returns: the thread leaves the method and the call is recorded with
\* the registry as the last block of the method found it.
Returns(t, value, pre) ==
    /\ threads' = [threads EXCEPT ![t] = Idle]
    /\ registryCall' = [op |-> threads[t].op, thread |-> t, args |-> threads[t].args,
                        value |-> value, pre |-> pre]

\* A thread moves on to the block `at` of the method it is in.
MovesTo(t, at, id) ==
    /\ threads' = [threads EXCEPT ![t] = [op |-> threads[t].op, at |-> at,
                                          args |-> threads[t].args, id |-> id]]
    /\ UNCHANGED registryCall

\* The methods whose first statement is a std::lock_guard (generateId is the
\* first thing registerShape does with a shape that is not null).
LockedFirst ==
    {"registerShape", "getShape", "disposeShape", "disposeAll", "evictLRU",
     "cacheResult", "getCachedResult", "getStats"}

\* The block a method starts in.
FirstBlock(op) ==
    CASE op = "registerShape" -> "generateId"
      [] op = "disposeShape" -> "erase"
      [] op = "disposeAll" -> "clear"
      [] op = "onShapeCreated" -> "pushCreated"
      [] op = "onShapeDisposed" -> "pushDisposed"
      [] OTHER -> op

\* An idle thread calls a method that starts with a lock_guard, and gets the
\* mutex.
CallLocked(t, op, args) ==
    /\ threads[t] = Idle
    /\ op \in LockedFirst
    /\ registry.mutex_ = 0
    /\ registry' = [registry EXCEPT !.mutex_ = t]
    /\ threads' = [threads EXCEPT ![t] = [op |-> op, at |-> FirstBlock(op),
                                          args |-> args, id |-> EmptyId]]
    /\ UNCHANGED <<steadyClock, registryCall>>
    /\ UNCHANGED analyzerVars

\* An idle thread calls onShapeCreated or onShapeDisposed: the push_back
\* begins, with no lock_guard in the method.
CallUnlocked(t, op, args) ==
    /\ threads[t] = Idle
    /\ op \in {"onShapeCreated", "onShapeDisposed"}
    /\ threads' = [threads EXCEPT ![t] = [op |-> op, at |-> FirstBlock(op),
                                          args |-> args, id |-> EmptyId]]
    /\ UNCHANGED <<registry, steadyClock, registryCall>>
    /\ UNCHANGED analyzerVars

\* registerShape with a null shape returns "" at once.
RegisterNull(t) ==
    /\ threads[t] = Idle
    /\ threads' = threads
    /\ registryCall' = [op |-> "registerShape", thread |-> t, args |-> <<"null">>,
                        value |-> EmptyId, pre |-> registry]
    /\ UNCHANGED <<registry, steadyClock>>
    /\ UNCHANGED analyzerVars

\* A thread between two blocks of its method takes the mutex for the second.
LockAgain(t) ==
    /\ threads[t].at \in {"insertWait", "invalidateWait"}
    /\ registry.mutex_ = 0
    /\ registry' = [registry EXCEPT !.mutex_ = t]
    /\ MovesTo(t, IF threads[t].at = "insertWait" THEN "insert" ELSE "invalidate",
               threads[t].id)
    /\ UNCHANGED steadyClock
    /\ UNCHANGED analyzerVars

\* ShapeRegistry::generateId under its lock_guard, and the reading of the
\* clock for entry.lastAccess that follows its return.
GenerateId(t) ==
    /\ threads[t].at = "generateId"
    /\ registry' = [registry EXCEPT !.nextId_ = @ + 1, !.mutex_ = 0]
    /\ threads' = [threads EXCEPT ![t] =
                      [op |-> threads[t].op, at |-> "insertWait",
                       args |-> <<threads[t].args[1], steadyClock>>,
                       id |-> FormatId(registry.nextId_)]]
    /\ UNCHANGED <<steadyClock, registryCall>>
    /\ UNCHANGED analyzerVars

\* registerShape, lines 49-52: shapes_[id] = entry under the lock_guard.  The
\* loop over createdCallbacks_ begins as the block is left.
InsertShape(t) ==
    /\ threads[t].at = "insert"
    /\ registry' = [registry EXCEPT
                      !.shapes_ = MapPut(@, threads[t].id,
                                         [lastAccess |-> threads[t].args[2],
                                          estimatedBytes |-> threads[t].args[1]]),
                      !.mutex_ = 0]
    /\ MovesTo(t, "notifyCreated", threads[t].id)
    /\ UNCHANGED steadyClock
    /\ UNCHANGED analyzerVars

\* registerShape, lines 55-59: the loop over createdCallbacks_ ends and the
\* id is returned.
NotifyCreated(t) ==
    /\ threads[t].at = "notifyCreated"
    /\ Returns(t, threads[t].id, registry)
    /\ UNCHANGED <<registry, steadyClock>>
    /\ UNCHANGED analyzerVars

\* ShapeRegistry::getShape (the non-const overload).
GetShape(t) ==
    /\ threads[t].at = "getShape"
    /\ IF threads[t].args[1] \in DOMAIN registry.shapes_
       THEN /\ registry' = [registry EXCEPT
                              !.shapes_[threads[t].args[1]].lastAccess = steadyClock,
                              !.mutex_ = 0]
            /\ Returns(t, threads[t].args[1], registry)
       ELSE /\ registry' = [registry EXCEPT !.mutex_ = 0]
            /\ Returns(t, EmptyId, registry)
    /\ UNCHANGED steadyClock
    /\ UNCHANGED analyzerVars

\* disposeShape, lines 98-105: find and erase under the lock_guard.
EraseShape(t) ==
    /\ threads[t].at = "erase"
    /\ registry' = [registry EXCEPT !.shapes_ = MapErase(@, {threads[t].args[1]}),
                                    !.mutex_ = 0]
    /\ IF threads[t].args[1] \in DOMAIN registry.shapes_
       THEN MovesTo(t, "invalidateWait", threads[t].args[1])
       ELSE Returns(t, FALSE, registry)
    /\ UNCHANGED steadyClock
    /\ UNCHANGED analyzerVars

\* The cache without the entries whose value is shapeId or whose key contains
\* shapeId.
CacheWithout(cache, shapeId) ==
    MapErase(cache, {k \in DOMAIN cache : cache[k] = shapeId \/ shapeId \in k.operands})

\* ShapeRegistry::invalidateCacheFor, called by disposeShape.  The loop over
\* disposedCallbacks_ begins as it returns.
InvalidateCacheFor(t) ==
    /\ threads[t].at = "invalidate"
    /\ registry' = [registry EXCEPT
                      !.operationCache_ = CacheWithout(@, threads[t].id),
                      !.mutex_ = 0]
    /\ MovesTo(t, "notifyDisposed", threads[t].id)
    /\ UNCHANGED steadyClock
    /\ UNCHANGED analyzerVars

\* disposeAll, lines 120-127: the ids are collected and both maps cleared.
ClearAll(t) ==
    /\ threads[t].at = "clear"
    /\ registry' = [registry EXCEPT !.shapes_ = EmptyMap, !.operationCache_ = EmptyMap,
                                    !.mutex_ = 0]
    /\ MovesTo(t, "notifyDisposed", EmptyId)
    /\ UNCHANGED steadyClock
    /\ UNCHANGED analyzerVars

\* disposeShape, lines 111-115, and disposeAll, lines 130-134: the loop over
\* disposedCallbacks_ ends and the method returns.
NotifyDisposed(t) ==
    /\ threads[t].at = "notifyDisposed"
    /\ Returns(t, TRUE, registry)
    /\ UNCHANGED <<registry, steadyClock>>
    /\ UNCHANGED analyzerVars

\* The sum of estimatedBytes over the shapes with ids in S.
RECURSIVE SumBytes(_, _)
SumBytes(shapes, S) ==
    IF S = {} THEN 0
    ELSE SumBytes(shapes, S \ {CHOOSE x \in S : TRUE})
         + shapes[CHOOSE x \in S : TRUE].estimatedBytes

CurrentBytes(shapes) == SumBytes(shapes, DOMAIN shapes)

\* The sequences that hold every element of S once.
Orders(S) ==
    {f \in [1..Cardinality(S) -> S] : \A i, j \in 1..Cardinality(S) : i # j => f[i] # f[j]}

\* The ids with the latest access first.
SortedByLatestAccess(shapes) ==
    {sorted \in Orders(DOMAIN shapes) :
        \A i, j \in 1..Len(sorted) :
            i < j => shapes[sorted[i]].lastAccess >= shapes[sorted[j]].lastAccess}

\* The orders std::sort may leave the ids in, by ascending lastAccess: neither
\* the map's iteration order nor the place of equal times is fixed.
SortedByAccess(shapes) ==
    {sorted \in Orders(DOMAIN shapes) :
        \A i, j \in 1..Len(sorted) :
            i < j => shapes[sorted[i]].lastAccess <= shapes[sorted[j]].lastAccess}

\* The eviction loop of lines 197-207 from item k of `sorted`.
RECURSIVE EvictLoop(_, _, _, _, _)
EvictLoop(k, sorted, shapes, currentBytes, targetBytes) ==
    IF k > Len(sorted) \/ currentBytes <= targetBytes THEN shapes
    ELSE EvictLoop(k + 1, sorted, MapErase(shapes, {sorted[k]}),
                   currentBytes - shapes[sorted[k]].estimatedBytes, targetBytes)

\* The shapes evictLRU leaves, for one outcome of the sort.
EvictFrom(shapes, targetBytes, sorted) ==
    IF CurrentBytes(shapes) <= targetBytes THEN shapes
    ELSE EvictLoop(1, sorted, shapes, CurrentBytes(shapes), targetBytes)

\* ShapeRegistry::evictLRU.
EvictLRU(t) ==
    /\ threads[t].at = "evictLRU"
    /\ \E sorted \in SortedByAccess(registry.shapes_) :
          /\ registry' = [registry EXCEPT
                            !.shapes_ = EvictFrom(@, threads[t].args[1], sorted),
                            !.mutex_ = 0]
          /\ Returns(t, TRUE, registry)
    /\ UNCHANGED steadyClock
    /\ UNCHANGED analyzerVars

\* ShapeRegistry::cacheResult.
CacheResult(t) ==
    /\ threads[t].at = "cacheResult"
    /\ registry' = [registry EXCEPT
                      !.operationCache_ = MapPut(@, threads[t].args[1], threads[t].args[2]),
                      !.mutex_ = 0]
    /\ Returns(t, TRUE, registry)
    /\ UNCHANGED steadyClock
    /\ UNCHANGED analyzerVars

\* std::nullopt.
Nullopt == [has |-> FALSE, id |-> EmptyId]

\* A lookup that returns whatever the cache holds for the key.
CachedResultUnverified(reg, key) ==
    IF key \in DOMAIN reg.operationCache_
    THEN [has |-> TRUE, id |-> reg.operationCache_[key]]
    ELSE Nullopt

\* What getCachedResult returns: the cached id if the key is cached and the
\* shape of that id is in shapes_.
CachedResultOf(reg, key) ==
    IF key \notin DOMAIN reg.operationCache_ THEN Nullopt
    ELSE IF reg.operationCache_[key] \notin DOMAIN reg.shapes_ THEN Nullopt
    ELSE [has |-> TRUE, id |-> reg.operationCache_[key]]

\* The registry after a lookup that returned `result`: one of the two counters
\* is one higher.
Counted(reg, result) ==
    IF result.has THEN [reg EXCEPT !.cacheHits_ = @ + 1, !.mutex_ = 0]
    ELSE [reg EXCEPT !.cacheMisses_ = @ + 1, !.mutex_ = 0]

\* ShapeRegistry::getCachedResult.
GetCachedResult(t) ==
    /\ threads[t].at = "getCachedResult"
    /\ registry' = Counted(registry, CachedResultOf(registry, threads[t].args[1]))
    /\ Returns(t, CachedResultOf(registry, threads[t].args[1]), registry)
    /\ UNCHANGED steadyClock
    /\ UNCHANGED analyzerVars

\* ShapeRegistry::getStats; operationDurations_ is empty, as recordOperation
\* has no caller.
GetStats(t) ==
    /\ threads[t].at = "getStats"
    /\ registry' = [registry EXCEPT !.mutex_ = 0]
    /\ Returns(t, [totalShapes |-> Cardinality(DOMAIN registry.shapes_),
                   totalMemoryBytes |-> CurrentBytes(registry.shapes_),
                   cacheHits |-> registry.cacheHits_,
                   cacheMisses |-> registry.cacheMisses_,
                   averageOperationMs |-> 0],
               registry)
    /\ UNCHANGED steadyClock
    /\ UNCHANGED analyzerVars

\* The blocks in which a thread reads or writes each callback list with no
\* lock_guard in force.
CreatedAccess == {"pushCreated", "notifyCreated"}

DisposedAccess == {"pushDisposed", "notifyDisposed"}

\* Another thread is inside one of the blocks `access`.
Contended(t, access) == \E u \in ThreadIds \ {t} : threads[u].at \in access

\* What a push_back may leave of the list: the element appended, or, when
\* another thread is using the vector at the same time, the list as it was.
PushOutcomes(list, cb, contended) ==
    IF contended THEN {Append(list, cb), list} ELSE {Append(list, cb)}

\* ShapeRegistry::onShapeCreated: the push_back ends.
OnShapeCreated(t) ==
    /\ threads[t].at = "pushCreated"
    /\ \E list \in PushOutcomes(registry.createdCallbacks_, threads[t].args[1],
                                Contended(t, CreatedAccess)) :
          /\ registry' = [registry EXCEPT !.createdCallbacks_ = list]
          /\ Returns(t, TRUE, registry)
    /\ UNCHANGED steadyClock
    /\ UNCHANGED analyzerVars

\* ShapeRegistry::onShapeDisposed: the push_back ends.
OnShapeDisposed(t) ==
    /\ threads[t].at = "pushDisposed"
    /\ \E list \in PushOutcomes(registry.disposedCallbacks_, threads[t].args[1],
                                Contended(t, DisposedAccess)) :
          /\ registry' = [registry EXCEPT !.disposedCallbacks_ = list]
          /\ Returns(t, TRUE, registry)
    /\ UNCHANGED steadyClock
    /\ UNCHANGED analyzerVars

-----------------------------------------------------------------------------
(* The calls the model makes on the registry.                              *)

\* How many shapes are registered in a run, how large a shape is estimated
\* to be, the largest eviction target, how many lookups are counted and how
\* many callbacks are added to a list.
MaxShapes == 2

MaxBytes == 2

MaxTarget == 2

MaxLookups == 1

MaxCallbacks == 1

ShapeIds == {FormatId(n) : n \in 1..MaxShapes}

\* Operation keys: one that contains no shape id and one that contains the
\* id of the first shape.
Keys ==
    {[name |-> "fillet", operands |-> {}],
     [name |-> "union", operands |-> {FormatId(1)}]}

\* The calls of one thread, with their arguments.
SequentialCalls ==
    {[op |-> "registerShape", args |-> <<b>>] : b \in 1..MaxBytes}
    \cup {[op |-> o, args |-> <<id>>] : o \in {"getShape", "disposeShape"}, id \in ShapeIds}
    \cup {[op |-> "disposeAll", args |-> <<>>]}
    \cup {[op |-> "evictLRU", args |-> <<b>>] : b \in 0..MaxTarget}
    \cup {[op |-> "cacheResult", args |-> <<k, FormatId(1)>>] : k \in Keys}
    \cup {[op |-> "getCachedResult", args |-> <<k>>] : k \in Keys}

\* The calls of concurrent threads that start with a lock_guard, and those
\* that have none.
ThreadCalls ==
    {[op |-> "registerShape", args |-> <<1>>],
     [op |-> "getShape", args |-> <<FormatId(1)>>],
     [op |-> "disposeShape", args |-> <<FormatId(1)>>],
     [op |-> "disposeAll", args |-> <<>>],
     [op |-> "getStats", args |-> <<>>],
     [op |-> "evictLRU", args |-> <<0>>],
     [op |-> "cacheResult", args |-> <<[name |-> "fillet", operands |-> {}], FormatId(1)>>],
     [op |-> "getCachedResult", args |-> <<[name |-> "fillet", operands |-> {}]>>]}

UnlockedCalls ==
    {[op |-> "onShapeCreated", args |-> <<"cb">>],
     [op |-> "onShapeDisposed", args |-> <<"cb">>]}

\* The bounds on a run: the ids handed out and the lookups counted.
WithinBounds(call) ==
    /\ call.op = "registerShape" => registry.nextId_ <= MaxShapes
    /\ call.op = "getCachedResult" =>
          registry.cacheHits_ + registry.cacheMisses_ < MaxLookups

RoomFor(call) ==
    IF call.op = "onShapeCreated"
    THEN Len(registry.createdCallbacks_) < MaxCallbacks
    ELSE Len(registry.disposedCallbacks_) < MaxCallbacks

\* The registry called from one thread: the calls follow one another.
NextRegistry ==
    \/ \E call \in SequentialCalls : WithinBounds(call) /\ CallLocked(1, call.op, call.args)
    \/ RegisterNull(1)
    \/ LockAgain(1)
    \/ GenerateId(1)
    \/ InsertShape(1)
    \/ NotifyCreated(1)
    \/ GetShape(1)
    \/ EraseShape(1)
    \/ InvalidateCacheFor(1)
    \/ ClearAll(1)
    \/ NotifyDisposed(1)
    \/ EvictLRU(1)
    \/ CacheResult(1)
    \/ GetCachedResult(1)
    \/ Tick

SpecRegistry == Init /\ [][NextRegistry]_vars

\* The registry called from every thread, within a time so short that the
\* clock does not tick.
NextThreads ==
    \E t \in ThreadIds :
        \/ \E call \in ThreadCalls : WithinBounds(call) /\ CallLocked(t, call.op, call.args)
        \/ \E call \in UnlockedCalls : RoomFor(call) /\ CallUnlocked(t, call.op, call.args)
        \/ RegisterNull(t)
        \/ LockAgain(t)
        \/ GenerateId(t)
        \/ InsertShape(t)
        \/ NotifyCreated(t)
        \/ GetShape(t)
        \/ EraseShape(t)
        \/ InvalidateCacheFor(t)
        \/ ClearAll(t)
        \/ NotifyDisposed(t)
        \/ EvictLRU(t)
        \/ CacheResult(t)
        \/ GetCachedResult(t)
        \/ GetStats(t)
        \/ OnShapeCreated(t)
        \/ OnShapeDisposed(t)

SpecThreads == Init /\ [][NextThreads]_vars

-----------------------------------------------------------------------------
(* Properties of the registry under concurrent calls (SpecThreads).        *)

\* The blocks in which a thread reads or writes the shape table, the
\* operation cache, the id counter, the statistics or a callback list.
SharedAccess ==
    {"generateId", "insert", "getShape", "erase", "invalidate", "clear", "evictLRU",
     "cacheResult", "getCachedResult", "getStats"}
    \cup CreatedAccess \cup DisposedAccess

\* No two registerShape calls hold or have returned the same id.
IdsDiffer ==
    /\ \A t, u \in ThreadIds :
          (t # u /\ threads[t].id # EmptyId /\ threads[u].id # EmptyId
             /\ threads[t].op = "registerShape" /\ threads[u].op = "registerShape")
          => threads[t].id # threads[u].id
    /\ (registryCall.op = "registerShape" /\ registryCall.value # EmptyId) =>
          \A t \in ThreadIds :
              threads[t].op = "registerShape" => threads[t].id # registryCall.value

\* C24: under every interleaving of calls to the public methods, a thread
\* that reads or writes shared registry state holds the registry mutex, so
\* no two threads use the same member at once, and no two registerShape
\* calls return the same id.
C24_SharedStateUnderMutex ==
    /\ \A t \in ThreadIds : threads[t].at \in SharedAccess => registry.mutex_ = t
    /\ \A t, u \in ThreadIds :
          t # u => ~(threads[t].at \in SharedAccess /\ threads[u].at \in SharedAccess)
    /\ IdsDiffer

-----------------------------------------------------------------------------
(* Properties of the registry called from one thread (SpecRegistry).       *)

\* The last call that returned was `op`, and no call has begun since.
JustReturned(op) == registryCall.op = op /\ threads[registryCall.thread] = Idle

\* The shapes the last call found and the ids it removed.
ShapesBefore == registryCall.pre.shapes_

Evicted == DOMAIN ShapesBefore \ DOMAIN registry.shapes_

\* C25: evictLRU(targetBytes) removes nothing when the summed estimatedBytes
\* is already <= targetBytes; otherwise it removes shapes in ascending order
\* of last access and stops as soon as the sum is <= targetBytes: afterwards
\* the sum is <= targetBytes or no shape is left, no retained shape has an
\* earlier last access than an evicted one, the retained shapes are as they
\* were, and before the last eviction the sum was still above the target.
C25_EvictsOldestUntilUnderTarget ==
    JustReturned("evictLRU") =>
        /\ CurrentBytes(ShapesBefore) <= registryCall.args[1] =>
              registry.shapes_ = ShapesBefore
        /\ DOMAIN registry.shapes_ \subseteq DOMAIN ShapesBefore
        /\ \A id \in DOMAIN registry.shapes_ : registry.shapes_[id] = ShapesBefore[id]
        /\ \/ CurrentBytes(registry.shapes_) <= registryCall.args[1]
           \/ DOMAIN registry.shapes_ = {}
        /\ \A kept \in DOMAIN registry.shapes_, gone \in Evicted :
              ShapesBefore[kept].lastAccess >= ShapesBefore[gone].lastAccess
        /\ Evicted # {} =>
              \E last \in Evicted :
                  /\ \A gone \in Evicted :
                        ShapesBefore[gone].lastAccess <= ShapesBefore[last].lastAccess
                  /\ CurrentBytes(registry.shapes_) + ShapesBefore[last].estimatedBytes
                        > registryCall.args[1]

\* C25 witness: an eviction that removed the shape used longest ago and kept
\* one used later.
C25_OldestGoneLaterKept ==
    /\ JustReturned("evictLRU")
    /\ Evicted # {}
    /\ \E kept \in DOMAIN registry.shapes_, gone \in Evicted :
          ShapesBefore[kept].lastAccess > ShapesBefore[gone].lastAccess

\* The ids handed out whose shapes are no longer in the table.
Removed == {FormatId(n) : n \in 1..(registry.nextId_ - 1)} \ DOMAIN registry.shapes_

\* The id the cache held for the key of the last lookup, if any.
CachedBefore ==
    IF registryCall.args[1] \in DOMAIN registryCall.pre.operationCache_
    THEN {registryCall.pre.operationCache_[registryCall.args[1]]}
    ELSE {}

\* C30: getCachedResult returns an id only if the key is cached with that id
\* and the shape is registered at the moment of the call, never the id of a
\* removed shape; such a call counts a hit, and a lookup whose cached shape
\* is not registered returns nothing and counts a miss.
C30_CachedResultIsRegistered ==
    JustReturned("getCachedResult") =>
        /\ registryCall.value.has =>
              /\ registryCall.value.id \in CachedBefore
              /\ registryCall.value.id \in DOMAIN registry.shapes_
              /\ registryCall.value.id \notin Removed
              /\ registry.cacheHits_ = registryCall.pre.cacheHits_ + 1
              /\ registry.cacheMisses_ = registryCall.pre.cacheMisses_
        /\ (\A id \in CachedBefore : id \notin DOMAIN registry.shapes_) =>
              /\ ~registryCall.value.has
              /\ registry.cacheMisses_ = registryCall.pre.cacheMisses_ + 1
              /\ registry.cacheHits_ = registryCall.pre.cacheHits_

\* C30 witness: a lookup of a key still cached with the id of a shape that
\* has been removed; it returned nothing and was counted as a miss.
C30_RemovedShapeIsAMiss ==
    /\ JustReturned("getCachedResult")
    /\ CachedBefore # {}
    /\ CachedBefore \subseteq Removed
    /\ ~registryCall.value.has
    /\ registry.cacheMisses_ = registryCall.pre.cacheMisses_ + 1

====
